---- MODULE Spec2Model ----
(***************************************************************************)
(* Verification model of DeepTracking-LlamaIndex.                          *)
(*                                                                         *)
(* Part 1: the incremental analysis manager (AnalyzerManager), in its two  *)
(* versions, src/analyzers/manager.rs (the one cli/ and bridge/ use) and   *)
(* src/analysis/analyzers.rs, over a small project tree on a file system   *)
(* whose files change between runs.                                        *)
(* Part 2: the dependency graph (DependencyGraph, src/graph/mod.rs).       *)
(***************************************************************************)
EXTENDS Integers, Sequences, FiniteSets, TLC

(***************************************************************************)
(* Bounds                                                                  *)
(***************************************************************************)
\* modification times of the file that is edited freely are 1..MaxTime
MaxTime == 2
\* the graph holds at most MaxEdges edges
MaxEdges == 2
\* the largest max_size of an EmbeddingCache
MaxSize == 2
\* the clock of the EmbeddingCache runs from 0 to MaxClock
MaxClock == 2
\* access_count is followed up to MaxCount
MaxCount == 2
\* the longest list of chunks handed to embed_chunks
MaxChunks == 3
\* the number of items added to a VectorIndex
MaxItems == 4
\* the longest chain of edges in the graphs of the traversal properties
MaxChain == 4
\* the number of vectors in a VectorIndex that is searched
MaxCorpus == 3
\* the longest token sequence handed to create_overlapping_chunks
MaxTokens == 4
\* the largest chunk_size and chunk_overlap of an EmbeddingConfig
MaxChunkSize == 3
\* usize is followed with UsizeBits bits
UsizeBits == 8
\* the number of vectors in an EmbeddingIndex
MaxIndexed == 2

(***************************************************************************)
(* The project tree.  A path is the sequence of its components.            *)
(***************************************************************************)
\* project roots the manager is started on; the second one lies inside a
\* directory that is itself called "target"
Roots == {<<"proj">>, <<"target", "proj">>}

FileA == <<"a.py">>
FileB == <<"src", "target.rs">>
FileInTarget == <<"target", "c.rs">>
FileInGit == <<"src", ".git", "d.py">>
FileTxt == <<"notes.txt">>
StateFileName == <<".deeptracking-state.json">>

\* files that are created, edited and removed between runs
DynamicFiles == {FileA, FileB}
\* files that are always there
StaticFiles == {FileInTarget, FileInGit, FileTxt}
\* directories below the root (always there)
SubDirs == {<<"src">>, <<"target">>, <<"src", ".git">>}

Contents == {"c1", "c2"}

\* FileA gets any modification time, FileB always the same one
Times(f) == IF f = FileA THEN 1..MaxTime ELSE {1}

NoFault == <<"no fault">>

VARIABLES
    variant,      \* which AnalyzerManager is in use
    root,         \* the project root
    fs,           \* file system: relative path of an existing file -> [content, mtime]
    state_file,   \* <root>/.deeptracking-state.json on disk
    mgr,          \* the AnalyzerManager: [live, analyzed_files]
    result,       \* what the last call of new / analyze_project returned, and the keys its retain dropped
    clean_runs,   \* successful fault-free runs of this manager since the last change on disk (capped at 2)
    nodes,        \* DependencyGraph.nodes: path -> Node
    edges,        \* DependencyGraph.edges: the edges in insertion order
    edge_index,   \* DependencyGraph.edge_index: source path -> set of edges
    added,        \* every Dependency fact handed to add_dependencies so far
    cache,        \* EmbeddingCache.cache: key -> [vector, last_accessed, access_count]
    config,       \* EmbeddingCache.config: [max_size, ttl]
    now,          \* SystemTime::now()
    pc,           \* for each thread, where it is in an insert: [state, key, vector, victim]
    cres,         \* the last operation on the EmbeddingCache, what it returned and what it evicted
    emb_cache,    \* Embeddings.cache: text -> EmbeddingVector
    emb_config,   \* Embeddings.config: [batch_size]
    emb_result,   \* the last call of embed_chunks: its arguments, the model's failures, its result
    vectors,      \* VectorIndex.vectors
    metadata,     \* VectorIndex.metadata: id -> IndexMetadata
    passed,       \* the vector and the metadata handed to each VectorIndex::add so far
    store_result, \* what the last CodeVectorStore::add returned
    chunker,      \* the last call of create_overlapping_chunks: its arguments and its outcome
    tasks,        \* for each task, where it is in embed_text: [state, text, guard, value]
    written,      \* the entries put into Embeddings.cache by the tasks, in the order of the inserts
    eindex,       \* the EmbeddingIndex: [vectors, dimension_indices, config]
    eresult       \* the last operation on the EmbeddingIndex and what it returned

gvars == <<nodes, edges, edge_index, added>>
cvars == <<cache, config, now, pc, cres>>
evars == <<emb_cache, emb_config, emb_result>>
ivars == <<vectors, metadata, passed, store_result>>
dvars == <<eindex, eresult>>
kvars == <<chunker, tasks, written, dvars>>
\* the indexing layer, which the manager and the graph do not touch
xvars == <<cvars, evars, ivars, kvars>>
mvars == <<variant, root, fs, state_file, mgr, result, clean_runs>>
\* what the manager's operations leave alone
NotManager == <<gvars, xvars>>
\* what the graph's operations leave alone
NotGraph == <<mvars, xvars>>
\* what the operations of one part of the indexing layer leave alone
NotCache == <<mvars, gvars, evars, ivars, kvars>>
NotEmbeddings == <<mvars, gvars, cvars, ivars, kvars>>
NotIndex == <<mvars, gvars, cvars, evars, kvars>>

EmptyMap == [p \in {} |-> 0]

Range(s) == {s[i] : i \in 1..Len(s)}

\* Path::join
Join(base, rel) == base \o rel

\* Path::parent
Parent(p) == SubSeq(p, 1, Len(p) - 1)

\* all orders in which a set of paths can be enumerated
Orders(S) == {s \in [1..Cardinality(S) -> S] : Range(s) = S}

(***************************************************************************)
(* The line scanner of RustAnalyzer (src/analyzers/rust.rs)                *)
(* A text is a sequence of lines and a line a sequence of characters.      *)
(***************************************************************************)
\* the source texts of the three-file project, by name
SourceText ==
    "use_b" :> <<<<"u", "s", "e", " ", "b", ";">>>> @@
    "mod_b" :> <<<<"m", "o", "d", " ", "b", ";">>>> @@
    "fn_foo" :> <<<<"p", "u", "b", " ", "f", "n", " ", "f", "o", "o", "(", ")", " ", "{">>, <<"}">>>> @@
    "fn_foo_inline" :> <<<<"f", "n", " ", "f", "o", "o", "(", ")", " ", "{", "}">>>> @@
    "fn_foo_param" :> <<<<"p", "u", "b", " ", "f", "n", " ", "f", "o", "o", "(", "x", ":", " ", "&", "u", "8", ")", " ", "{">>, <<"}">>>> @@
    "main_calls" :> <<<<"f", "n", " ", "m", "a", "i", "n", "(", ")", " ", "{">>, <<" ", " ", " ", " ", "f", "o", "o", "(", ")", ";">>, <<"}">>>> @@
    "main_inline" :> <<<<"f", "n", " ", "m", "a", "i", "n", "(", ")", " ", "{", " ", "f", "o", "o", "(", ")", ";", " ", "}">>>> @@
    "main_let" :> <<<<"f", "n", " ", "m", "a", "i", "n", "(", ")", " ", "{">>, <<" ", " ", " ", " ", "l", "e", "t", " ", "y", " ", "=", " ", "f", "o", "o", "(", ")", ";">>, <<"}">>>>

\* the names the texts mention, with their spelling
Spelling ==
    "b" :> <<"b">> @@ "foo" :> <<"f", "o", "o">> @@ "main" :> <<"m", "a", "i", "n">> @@ "u8" :> <<"u", "8">>

\* PathBuf::from(name): a path of one component
PathBufFrom(chars) == <<CHOOSE w \in DOMAIN Spelling : Spelling[w] = chars>>

\* str::starts_with
StartsWith(s, prefix) == Len(s) >= Len(prefix) /\ SubSeq(s, 1, Len(prefix)) = prefix

\* str::find: the first position of `pat` in s, 0 for None
Find(s, pat) ==
    LET First(at) == IF at = {} THEN 0 ELSE CHOOSE i \in at : \A j \in at : i <= j
    IN First({k \in 1..(Len(s) - Len(pat) + 1) : SubSeq(s, k, k + Len(pat) - 1) = pat})

\* str::contains
Contains(s, pat) == Find(s, pat) # 0

RECURSIVE TrimStart(_)
TrimStart(s) == IF s # <<>> /\ Head(s) = " " THEN TrimStart(Tail(s)) ELSE s

\* str::trim_end_matches(ch)
RECURSIVE trim_end_matches(_, _)
trim_end_matches(s, ch) ==
    IF s # <<>> /\ s[Len(s)] = ch THEN trim_end_matches(SubSeq(s, 1, Len(s) - 1), ch) ELSE s

\* str::trim
Trim(s) == trim_end_matches(TrimStart(s), " ")

\* str::split(pat): the pieces between the occurrences of `pat`
RECURSIVE Split(_, _)
Split(s, pat) ==
    LET Cut(i) == IF i = 0 THEN <<s>>
                  ELSE <<SubSeq(s, 1, i - 1)>> \o Split(SubSeq(s, i + Len(pat), Len(s)), pat)
    IN Cut(Find(s, pat))

\* str::split_whitespace
split_whitespace(s) == SelectSeq(Split(s, <<" ">>), LAMBDA w : w # <<>>)

\* analyze_imports: Option<Dependency>, as a sequence of at most one fact
analyze_imports(line, line_num, path) ==
    LET Import(parts) ==
            IF (StartsWith(line, <<"u", "s", "e", " ">>) \/ StartsWith(line, <<"m", "o", "d", " ">>))
               /\ Len(parts) >= 2
            THEN <<[source |-> path, target |-> PathBufFrom(trim_end_matches(parts[2], ";")),
                    dependency_type |-> "Import", line_number |-> line_num]>>
            ELSE <<>>
    IN Import(split_whitespace(line))

\* the cleaning of a parameter's type in extract_parameters
clean_param_type(t) ==
    LET Unmut(t1) == IF StartsWith(t1, <<"m", "u", "t", " ">>) THEN Trim(SubSeq(t1, 5, Len(t1))) ELSE t1
    IN Unmut(IF StartsWith(t, <<"&">>) THEN Trim(Tail(t)) ELSE t)

\* the `for param in params` loop of extract_parameters: the types of the parameters
RECURSIVE parameter_types(_)
parameter_types(params) ==
    IF params = <<>> THEN <<>>
    ELSE LET Typed(param, parts) ==
                 IF param # <<>> /\ Len(parts) >= 2
                 THEN <<clean_param_type(Trim(parts[2]))>> \o parameter_types(Tail(params))
                 ELSE parameter_types(Tail(params))
             Param(param) == Typed(param, Split(param, <<":">>))
         IN Param(Trim(Head(params)))

\* extract_parameters: Err without a closing parenthesis
extract_parameters(params_str) ==
    LET Upto(params_end) ==
            IF params_end = 0 THEN [ok |-> FALSE, types |-> <<>>]
            ELSE [ok |-> TRUE,
                  types |-> parameter_types(Split(SubSeq(params_str, 1, params_end - 1), <<",">>))]
    IN Upto(Find(params_str, <<")">>))

\* extract_function_info: Result<Option<FunctionInfo>, String>; name and parameter types
extract_function_info(line) ==
    IF ~Contains(line, <<"f", "n", " ">>) THEN [ok |-> TRUE, some |-> FALSE, name |-> <<>>, types |-> <<>>]
    ELSE LET Info(name, params) ==
                 [ok |-> params.ok, some |-> params.ok, name |-> name, types |-> params.types]
             Parts(fn_parts) ==
                 Info(Trim(fn_parts[1]),
                      IF Len(fn_parts) > 1 THEN extract_parameters(fn_parts[2])
                      ELSE [ok |-> TRUE, types |-> <<>>])
         IN Parts(Split(Split(line, <<"f", "n", " ">>)[2], <<"(">>))

\* analyze_function_definition: the definition fact, then one TypeUsage fact per typed
\* parameter (current_scope is never pushed to, so full_path is the name)
analyze_function_definition(line, line_num, path) ==
    LET Facts(info) ==
            IF ~info.ok THEN [ok |-> FALSE, deps |-> <<>>]
            ELSE IF ~info.some THEN [ok |-> TRUE, deps |-> <<>>]
            ELSE [ok |-> TRUE,
                  deps |-> <<[source |-> path, target |-> PathBufFrom(info.name),
                              dependency_type |-> "FunctionDefinition", line_number |-> line_num]>>
                           \o [i \in 1..Len(info.types) |->
                                  [source |-> PathBufFrom(info.name), target |-> PathBufFrom(info.types[i]),
                                   dependency_type |-> "TypeUsage", line_number |-> line_num]]]
    IN Facts(extract_function_info(line))

\* the words extract_function_calls never takes for a callee
call_keywords ==
    {<<"i", "f">>, <<"w", "h", "i", "l", "e">>, <<"f", "o", "r">>, <<"m", "a", "t", "c", "h">>, <<"f", "n">>}

\* extract_function_calls: for every "(" of the line, the last word before it
RECURSIVE extract_function_calls(_, _)
extract_function_calls(line, current_pos) ==
    LET Callee(words) ==
            IF words # <<>> /\ words[Len(words)] \notin call_keywords
               /\ ~Contains(words[Len(words)], <<"-", ">">>)
            THEN <<words[Len(words)]>> ELSE <<>>
        At(start_pos) ==
            Callee(split_whitespace(trim_end_matches(SubSeq(line, 1, start_pos - 1), " ")))
            \o extract_function_calls(line, start_pos)
        Paren(pos) == IF pos = 0 THEN <<>> ELSE At(current_pos + pos)
    IN Paren(Find(SubSeq(line, current_pos + 1, Len(line)), <<"(">>))

\* analyze_function_calls: one FunctionCall fact per callee found
analyze_function_calls(line, line_num, path) ==
    LET Facts(calls) ==
            [i \in 1..Len(calls) |->
                [source |-> path, target |-> PathBufFrom(calls[i]),
                 dependency_type |-> "FunctionCall", line_number |-> line_num]]
    IN Facts(extract_function_calls(line, 0))

\* the `for (line_num, line) in lines.iter().enumerate()` loop of analyze_file; the
\* block-depth bookkeeping only sets FunctionInfo.block_end and is left out
RECURSIVE analyze_lines(_, _, _, _)
analyze_lines(lines, line_num, path, deps) ==
    IF lines = <<>> THEN [ok |-> TRUE, deps |-> deps]
    ELSE LET Step(line, def) ==
                 IF ~def.ok THEN [ok |-> FALSE, deps |-> <<>>]
                 ELSE analyze_lines(Tail(lines), line_num + 1, path,
                          deps \o analyze_imports(line, line_num, path) \o def.deps
                               \o analyze_function_calls(line, line_num, path))
             Line(line) == Step(line, analyze_function_definition(line, line_num, path))
         IN Line(Trim(Head(lines)))

\* RustAnalyzer::analyze_file
analyze_file(content, path) == analyze_lines(content, 0, path, <<>>)

(***************************************************************************)
(* Leaf operations of the manager                                          *)
(***************************************************************************)
ignored_patterns == {"target", "node_modules", ".git", "__pycache__", ".deeptracking-state.json"}

\* a variant of is_ignored that looks at the file name alone
is_ignored_file_name_only(path) == path[Len(path)] \in ignored_patterns

\* is_ignored: some component of the path is one of the ignored names
is_ignored(path) == \E i \in 1..Len(path) : path[i] \in ignored_patterns

\* the extension of the last component
Extension(path) ==
    LET name == path[Len(path)] IN
    CASE name \in {"a.py", "d.py"} -> "py"
      [] name \in {"target.rs", "a.rs", "b.rs", "c.rs"} -> "rs"
      [] name = "notes.txt" -> "txt"
      [] name = ".deeptracking-state.json" -> "json"
      [] OTHER -> "none"

\* get_analyzer_for_file: RustAnalyzer for "rs", PythonAnalyzer for "py"
get_analyzer_for_file(path) ==
    CASE Extension(path) = "rs" -> "RustAnalyzer"
      [] Extension(path) = "py" -> "PythonAnalyzer"
      [] OTHER -> "None"

\* md5::compute, formatted as hex: one digest per content
md5(content) ==
    CASE content = "c1" -> "d41d8c" [] content = "c2" -> "9e107d" [] OTHER -> <<"md5", content>>

\* the relative path of a full path under the root
Rel(path) == SubSeq(path, Len(root) + 1, Len(path))

\* fs::metadata / fs::read succeed on an existing file unless this run's fault hits it
Readable(path, fault) == Rel(path) \in DOMAIN fs /\ fault # path

\* calculate_file_hash
calculate_file_hash(path, fault) ==
    IF Readable(path, fault)
    THEN [ok |-> TRUE, value |-> md5(fs[Rel(path)].content)]
    ELSE [ok |-> FALSE, value |-> "io error"]

\* CodeAnalyzer::analyze: the dependency facts the scanners find in a content
analyze(path, fault) ==
    IF ~Readable(path, fault)
    THEN [ok |-> FALSE, deps |-> <<>>]
    ELSE IF fs[Rel(path)].content \in DOMAIN SourceText
    THEN analyze_file(SourceText[fs[Rel(path)].content], path)
    ELSE LET imp == [source |-> path, target |-> <<"b">>, dependency_type |-> "Import", line_number |-> 0]
             call == [source |-> path, target |-> <<"foo">>, dependency_type |-> "FunctionCall", line_number |-> 1]
         IN [ok |-> TRUE,
             deps |-> IF fs[Rel(path)].content = "c1" THEN <<imp>> ELSE <<imp, call>>]

\* a variant of needs_analysis that trusts the modification time alone
needs_analysis_mtime_only(analyzed_files, path, fault) ==
    IF ~Readable(path, fault)
    THEN [ok |-> FALSE, value |-> FALSE]
    ELSE IF path \in DOMAIN analyzed_files
         THEN [ok |-> TRUE, value |-> fs[Rel(path)].mtime > analyzed_files[path].last_modified]
         ELSE [ok |-> TRUE, value |-> TRUE]

\* needs_analysis: Result<bool, String>
needs_analysis(analyzed_files, path, fault) ==
    IF ~Readable(path, fault)
    THEN [ok |-> FALSE, value |-> FALSE]
    ELSE LET modified == fs[Rel(path)].mtime IN
         IF path \in DOMAIN analyzed_files
         THEN LET state == analyzed_files[path]
                  file_hash == calculate_file_hash(path, fault)
              IN [ok |-> file_hash.ok,
                  value |-> file_hash.ok /\ (modified > state.last_modified \/ file_hash.value # state.hash)]
         ELSE [ok |-> TRUE, value |-> TRUE]

\* HashMap::insert
MapInsert(m, k, v) == [x \in (DOMAIN m) \cup {k} |-> IF x = k THEN v ELSE m[x]]

\* a variant of the retain call that drops nothing
MapRetain_keep_all(m, keep) == m

\* HashMap::retain(|path, _| keep.contains(path))
MapRetain(m, keep) == [x \in (DOMAIN m) \cap keep |-> m[x]]

\* update_file_state: Result<(), String>, with the map it leaves
update_file_state(analyzed_files, path, deps, fault) ==
    LET h == calculate_file_hash(path, fault) IN
    IF ~Readable(path, fault) \/ ~h.ok
    THEN [ok |-> FALSE, analyzed_files |-> analyzed_files]
    ELSE [ok |-> TRUE,
          analyzed_files |-> MapInsert(analyzed_files, path,
                                 [last_modified |-> fs[Rel(path)].mtime,
                                  dependencies |-> deps,
                                  hash |-> h.value])]

(***************************************************************************)
(* The walk                                                                *)
(***************************************************************************)
\* the files on disk below the root, the state file included when it exists
FilesOnDisk ==
    {Join(root, f) : f \in DOMAIN fs}
        \cup (IF state_file.kind = "missing" THEN {} ELSE {Join(root, StateFileName)})

DirsOnDisk == {root} \cup {Join(root, d) : d \in SubDirs}

\* WalkDir::new(root).into_iter().filter_entry(|e| !is_ignored(e.path())):
\* an entry is yielded when the predicate accepts it and, below the root, its
\* directory was yielded and could be read
RECURSIVE Yielded(_, _)
Yielded(path, fault) ==
    /\ ~is_ignored(path)
    /\ \/ path = root
       \/ /\ Len(path) > Len(root)
          /\ Parent(path) # fault
          /\ Yielded(Parent(path), fault)

\* the walk meets an error item: a yielded directory that cannot be read
walk_error(fault) == fault \in DirsOnDisk /\ Yielded(fault, NoFault)

\* the files the walk yields
files_to_analyze(fault) == {p \in FilesOnDisk : Yielded(p, fault)}

(***************************************************************************)
(* analyze_project of src/analyzers/manager.rs                             *)
(***************************************************************************)
\* the FileEntry made for a file that has just been analyzed: its path relative to the
\* root and its extension as file_type
FileEntry(path) == [path |-> Rel(path), file_type |-> Extension(path), children |-> <<>>]

\* the file names of the project in the order of PathBuf::cmp
NameOrder == <<"a.py", "a.rs", "b.rs", "c.rs", "d.py", "notes.txt", "target.rs">>
NameRank(name) == CHOOSE i \in 1..Len(NameOrder) : NameOrder[i] = name

\* the comparison of the sort in build_directory_tree: directories first, then by path
EntryBefore(a, b) ==
    IF (a.file_type = "directory") # (b.file_type = "directory") THEN a.file_type = "directory"
    ELSE NameRank(a.path[Len(a.path)]) <= NameRank(b.path[Len(b.path)])

\* build_directory_tree: the entries whose parent is current_path, sorted; an entry
\* of type "directory" gets the entries below it as children
RECURSIVE build_directory_tree(_, _)
build_directory_tree(current_path, entries) ==
    LET here == {p \in DOMAIN entries : p # <<>> /\ Parent(p) = current_path}
        Place(p, paths) == 1 + Cardinality({q \in paths : q # p /\ EntryBefore(entries[q], entries[p])})
        Sorted(paths) == [i \in 1..Cardinality(paths) |-> CHOOSE p \in paths : Place(p, paths) = i]
        Entry(e) == IF e.file_type = "directory"
                    THEN [e EXCEPT !.children = build_directory_tree(e.path, entries)]
                    ELSE e
        Entries(s) == [i \in 1..Len(s) |-> Entry(entries[s[i]])]
    IN Entries(Sorted(here))

\* the body of `for path in files_to_analyze`; st = [ok, analyzed_files, all_dependencies,
\* current_files, entries_by_path]
process_file(path, st, fault) ==
    LET st1 == [st EXCEPT !.current_files = @ \cup {path}] IN
    IF get_analyzer_for_file(path) = "None" THEN st1
    ELSE LET na == needs_analysis(st1.analyzed_files, path, fault) IN
         IF ~na.ok THEN [st1 EXCEPT !.ok = FALSE]
         ELSE IF ~na.value THEN st1
         ELSE LET deps == analyze(path, fault) IN
              IF ~deps.ok THEN [st1 EXCEPT !.ok = FALSE]
              ELSE LET upd == update_file_state(st1.analyzed_files, path, deps.deps, fault) IN
                   IF ~upd.ok THEN [st1 EXCEPT !.ok = FALSE]
                   ELSE [st1 EXCEPT !.analyzed_files = upd.analyzed_files,
                                    !.all_dependencies = @ \o deps.deps,
                                    !.entries_by_path = MapInsert(@, Rel(path), FileEntry(path))]

RECURSIVE process_files(_, _, _)
process_files(files, st, fault) ==
    IF files = <<>> \/ ~st.ok THEN st
    ELSE process_files(Tail(files), process_file(Head(files), st, fault), fault)

LoopStart == [ok |-> TRUE, analyzed_files |-> mgr.analyzed_files,
              all_dependencies |-> <<>>, current_files |-> {}, entries_by_path |-> EmptyMap]

\* the number of clean runs after a run
NextCleanRuns(ok, fault) ==
    IF ok /\ fault = NoFault THEN (IF clean_runs < 2 THEN clean_runs + 1 ELSE 2) ELSE 0

analyze_project(order, fault) ==
    /\ variant = "analyzers::manager"
    /\ mgr.live
    /\ order \in Orders(files_to_analyze(fault))
    /\ LET Done(st) ==
               /\ mgr' = [mgr EXCEPT !.analyzed_files =
                             IF st.ok THEN MapRetain(st.analyzed_files, st.current_files)
                             ELSE st.analyzed_files]
               /\ result' = [op |-> "analyze_project", ok |-> st.ok,
                             dependencies |-> IF st.ok THEN st.all_dependencies ELSE <<>>,
                             pruned |-> IF st.ok THEN (DOMAIN st.analyzed_files) \ st.current_files
                                        ELSE {},
                             current_files |-> IF st.ok THEN st.current_files ELSE {},
                             project_structure |->
                                 IF st.ok THEN build_directory_tree(<<>>, st.entries_by_path)
                                 ELSE <<>>]
               /\ clean_runs' = NextCleanRuns(st.ok, fault)
       IN Done(process_files(order, LoopStart, fault))
    /\ UNCHANGED <<variant, root, fs, state_file>> /\ UNCHANGED NotManager

(***************************************************************************)
(* analyze_project of src/analysis/analyzers.rs                            *)
(***************************************************************************)
\* the body of the walk loop for a file entry
legacy_process_entry(path, st, fault) ==
    LET st1 == [st EXCEPT !.current_files = @ \cup {path}] IN
    IF get_analyzer_for_file(path) = "None" THEN st1
    ELSE LET na == needs_analysis(st1.analyzed_files, path, fault) IN
         IF ~na.ok THEN [st1 EXCEPT !.ok = FALSE]
         ELSE IF ~na.value
         THEN IF path \in DOMAIN st1.analyzed_files
              THEN [st1 EXCEPT !.all_dependencies = @ \o st1.analyzed_files[path].dependencies]
              ELSE st1
         ELSE LET deps == analyze(path, fault) IN
              IF ~deps.ok THEN [st1 EXCEPT !.ok = FALSE]
              ELSE LET upd == update_file_state(st1.analyzed_files, path, deps.deps, fault) IN
                   IF ~upd.ok THEN [st1 EXCEPT !.ok = FALSE]
                   ELSE [st1 EXCEPT !.analyzed_files = upd.analyzed_files,
                                    !.all_dependencies = @ \o deps.deps]

RECURSIVE legacy_process_entries(_, _, _)
legacy_process_entries(files, st, fault) ==
    IF files = <<>> \/ ~st.ok THEN st
    ELSE legacy_process_entries(Tail(files), legacy_process_entry(Head(files), st, fault), fault)

\* save_state: File::create fails on a state file that cannot be opened
save_state(analyzed_files) ==
    IF state_file.kind = "unopenable"
    THEN [ok |-> FALSE, state_file |-> state_file]
    ELSE [ok |-> TRUE, state_file |-> [kind |-> "valid", analyzed_files |-> analyzed_files]]

\* `seen` entries are processed before the walk's error item, if there is one
legacy_analyze_project(order, fault, seen) ==
    /\ variant = "analysis::analyzers"
    /\ mgr.live
    /\ order \in Orders(files_to_analyze(fault))
    /\ seen \in 0..Len(order)
    /\ walk_error(fault) \/ seen = Len(order)
    /\ LET st == legacy_process_entries(SubSeq(order, 1, seen), LoopStart, fault)
           walked == st.ok /\ ~walk_error(fault)
           pruned == MapRetain(st.analyzed_files, st.current_files)
           saved == save_state(pruned)
           ok == walked /\ saved.ok
       IN
       /\ mgr' = [mgr EXCEPT !.analyzed_files = IF walked THEN pruned ELSE st.analyzed_files]
       /\ state_file' = IF walked THEN saved.state_file ELSE state_file
       /\ result' = [op |-> "analyze_project", ok |-> ok,
                     dependencies |-> IF ok THEN st.all_dependencies ELSE <<>>,
                     pruned |-> IF walked THEN (DOMAIN st.analyzed_files) \ st.current_files ELSE {},
                     current_files |-> IF walked THEN st.current_files ELSE {},
                     project_structure |-> <<>>]
       /\ clean_runs' = NextCleanRuns(ok, fault)
    /\ UNCHANGED <<variant, root, fs>> /\ UNCHANGED NotManager

(***************************************************************************)
(* AnalyzerManager::new                                                    *)
(***************************************************************************)
new ==
    /\ IF state_file.kind = "missing"
       THEN /\ mgr' = [live |-> TRUE, analyzed_files |-> EmptyMap]
            /\ result' = [op |-> "new", ok |-> TRUE, dependencies |-> <<>>, pruned |-> {},
                  current_files |-> {}, project_structure |-> <<>>]
       ELSE IF state_file.kind = "unopenable"
       THEN /\ mgr' = [live |-> FALSE, analyzed_files |-> EmptyMap]
            /\ result' = [op |-> "new", ok |-> FALSE, dependencies |-> <<>>, pruned |-> {},
                  current_files |-> {}, project_structure |-> <<>>]
       ELSE /\ mgr' = [live |-> TRUE,
                       analyzed_files |-> IF state_file.kind = "valid"
                                          THEN state_file.analyzed_files ELSE EmptyMap]
            /\ result' = [op |-> "new", ok |-> TRUE, dependencies |-> <<>>, pruned |-> {},
                  current_files |-> {}, project_structure |-> <<>>]
    /\ clean_runs' = 0
    /\ UNCHANGED <<variant, root, fs, state_file>> /\ UNCHANGED NotManager

(***************************************************************************)
(* The environment: edits of the project between runs                      *)
(***************************************************************************)
\* create a file, change its content, or touch it
write_file(f, c, t) ==
    /\ f \in DynamicFiles /\ c \in Contents /\ t \in Times(f)
    /\ f \in DOMAIN fs => fs[f] # [content |-> c, mtime |-> t]
    /\ fs' = MapInsert(fs, f, [content |-> c, mtime |-> t])
    /\ clean_runs' = 0
    /\ UNCHANGED <<variant, root, state_file, mgr, result>> /\ UNCHANGED NotManager

remove_file(f) ==
    /\ f \in DynamicFiles /\ f \in DOMAIN fs
    /\ fs' = [x \in (DOMAIN fs) \ {f} |-> fs[x]]
    /\ clean_runs' = 0
    /\ UNCHANGED <<variant, root, state_file, mgr, result>> /\ UNCHANGED NotManager

\* the state file is damaged, loses its read permission, or is deleted
damage_state_file(kind) ==
    /\ kind \in {"corrupt", "unopenable", "missing"}
    /\ state_file.kind # kind
    /\ state_file' = [kind |-> kind, analyzed_files |-> EmptyMap]
    /\ clean_runs' = 0
    /\ UNCHANGED <<variant, root, fs, mgr, result>> /\ UNCHANGED NotManager

StaticContent == [f \in StaticFiles |-> [content |-> "c2", mtime |-> 1]]

MInit ==
    /\ variant \in {"analyzers::manager", "analysis::analyzers"}
    /\ root \in Roots
    /\ fs = StaticContent
    /\ state_file = [kind |-> "missing", analyzed_files |-> EmptyMap]
    /\ mgr = [live |-> FALSE, analyzed_files |-> EmptyMap]
    /\ result = [op |-> "none", ok |-> TRUE, dependencies |-> <<>>, pruned |-> {},
                  current_files |-> {}, project_structure |-> <<>>]
    /\ clean_runs = 0

Faults == {NoFault} \cup {Join(root, f) : f \in DynamicFiles} \cup {root, Join(root, <<"src">>)}

MNext ==
    \/ new
    \/ \E fault \in Faults : \E order \in Orders(files_to_analyze(fault)) :
           analyze_project(order, fault)
    \/ \E fault \in Faults : \E order \in Orders(files_to_analyze(fault)) :
           \E seen \in 0..Len(order) : legacy_analyze_project(order, fault, seen)
    \/ \E f \in DynamicFiles, c \in Contents, t \in 1..MaxTime : write_file(f, c, t)
    \/ \E f \in DynamicFiles : remove_file(f)
    \/ \E kind \in {"corrupt", "unopenable", "missing"} : damage_state_file(kind)

(***************************************************************************)
(* Part 2: DependencyGraph (src/graph/mod.rs)                              *)
(***************************************************************************)
\* the paths and symbols the analyzers' facts mention; the last one has a
\* component that is not valid UTF-8
NodeA == <<"a.rs">>
NodeFoo == <<"foo">>
NodeRaw == <<"lib<FF>.rs">>
GraphPaths == {NodeA, NodeFoo, NodeRaw}

DependencyType == {"Import", "FunctionCall", "Inheritance", "Usage", "FunctionDefinition", "TypeUsage"}

\* the Dependency facts fed to the graph
GraphFacts ==
    [source : GraphPaths, target : GraphPaths, dependency_type : DependencyType, line_number : {0}]

\* Path::to_string_lossy: a component that is not valid UTF-8 comes out with
\* U+FFFD in place of the bad bytes
LossyComponent(c) == IF c = "lib<FF>.rs" THEN "lib<U+FFFD>.rs" ELSE c
to_string_lossy(path) == [text |-> [i \in 1..Len(path) |-> LossyComponent(path[i])]]

\* add_node: a node is created the first time a path is referenced
add_node(ns, path, node_type) ==
    IF path \in DOMAIN ns THEN ns
    ELSE MapInsert(ns, path, [path |-> path, node_type |-> node_type])

\* add_edge: the edge is appended to `edges` and entered in `edge_index` under its source
add_edge(g, edge) ==
    [g EXCEPT !.edges = Append(@, edge),
              !.edge_index = MapInsert(@, edge.source,
                                 (IF edge.source \in DOMAIN @ THEN @[edge.source] ELSE {}) \cup {edge})]

\* the body of `for dep in deps` in add_dependencies; g = [nodes, edges, edge_index]
add_dependency(g, dep) ==
    LET g1 == [g EXCEPT !.nodes = add_node(add_node(@, dep.source, "File"), dep.target, "File")]
        edge == [source |-> dep.source, target |-> dep.target,
                 edge_type |-> dep.dependency_type, line_number |-> dep.line_number]
    IN add_edge(g1, edge)

RECURSIVE add_all(_, _)
add_all(g, deps) ==
    IF deps = <<>> THEN g ELSE add_all(add_dependency(g, Head(deps)), Tail(deps))

add_dependencies(deps) ==
    /\ LET g == add_all([nodes |-> nodes, edges |-> edges, edge_index |-> edge_index], deps) IN
       /\ nodes' = g.nodes
       /\ edges' = g.edges
       /\ edge_index' = g.edge_index
    /\ added' = added \cup Range(deps)
    /\ UNCHANGED NotGraph

\* the edges the index holds for a path (HashMap::get, None read as no edges)
IndexedEdges(file) == IF file \in DOMAIN edge_index THEN edge_index[file] ELSE {}

\* a variant of get_dependencies that pushes the edge's source
get_dependencies_sources(file, order) ==
    [i \in 1..Cardinality(IndexedEdges(file)) |-> to_string_lossy(order[i].source)]

\* get_dependencies; `order` is the order in which the HashSet is iterated
get_dependencies(file, order) ==
    [i \in 1..Cardinality(IndexedEdges(file)) |-> to_string_lossy(order[i].target)]

\* get_callers: the sources of the FunctionCall edges into `target`, in insertion order
RECURSIVE callers_from(_, _)
callers_from(es, target) ==
    IF es = <<>> THEN <<>>
    ELSE IF Head(es).target = target /\ Head(es).edge_type = "FunctionCall"
         THEN <<Head(es).source>> \o callers_from(Tail(es), target)
         ELSE callers_from(Tail(es), target)

\* a variant of get_callers without the test of the edge type
get_callers_any_kind(target) ==
    [i \in 1..Len(SelectSeq(edges, LAMBDA e : e.target = target))
        |-> SelectSeq(edges, LAMBDA e : e.target = target)[i].source]

get_callers(target) == callers_from(edges, target)

\* Iteration of the HashSets of edge_index: for every indexed path one order of its
\* edges, the same for the whole of a query
IterOrders ==
    {ord \in [DOMAIN edge_index -> UNION {Orders(edge_index[p]) : p \in DOMAIN edge_index}] :
        \A p \in DOMAIN edge_index : ord[p] \in Orders(edge_index[p])}

\* `if let Some(edges) = self.edge_index.get(p) { for edge in edges`: the edges iterated
EdgesIn(ord, p) == IF p \in DOMAIN ord THEN ord[p] ELSE <<>>

\* a variant of rel_type that files every kind under one name
rel_type_single_bucket(kind) == "uses"

\* the relation name of an edge kind in get_direct_relationships
rel_type(kind) ==
    CASE kind = "FunctionCall" -> "calls"
      [] kind = "Import" -> "imports"
      [] kind = "Inheritance" -> "inherits"
      [] kind = "Usage" -> "uses"
      [] kind = "FunctionDefinition" -> "defines"
      [] kind = "TypeUsage" -> "uses_type"

\* get_direct_relationships: relation name -> the targets pushed under it, in iteration order
get_direct_relationships(file, ord) ==
    LET es == EdgesIn(ord, file)
        names == {rel_type(es[i].edge_type) : i \in 1..Len(es)}
        bucket(r) == SelectSeq(es, LAMBDA e : rel_type(e.edge_type) = r)
    IN [r \in names |-> [i \in 1..Len(bucket(r)) |-> to_string_lossy(bucket(r)[i].target)]]

\* find_parent: the target of the first Inheritance edge iterated, if any
find_parent(file, ord) ==
    LET inh == SelectSeq(EdgesIn(ord, file), LAMBDA e : e.edge_type = "Inheritance")
    IN IF inh = <<>> THEN [some |-> FALSE, value |-> file]
       ELSE [some |-> TRUE, value |-> inh[1].target]

\* the number of iterations of a loop that are followed; none of the loops below
\* needs more (a result "unfinished" says one did)
LoopFuel == Cardinality(GraphPaths) + 2

\* calculate_inheritance_depth without the visited set
RECURSIVE inheritance_walk_unchecked(_, _, _, _, _)
inheritance_walk_unchecked(current, visited, depth, ord, fuel) ==
    LET parent == find_parent(current, ord) IN
    IF fuel = 0 THEN [ok |-> FALSE, value |-> depth, err |-> "unfinished"]
    ELSE IF ~parent.some THEN [ok |-> TRUE, value |-> depth, err |-> ""]
    ELSE inheritance_walk_unchecked(parent.value, visited, depth + 1, ord, fuel - 1)

\* the `while let Some(parent) = self.find_parent(&current)?` loop of
\* calculate_inheritance_depth
RECURSIVE inheritance_walk(_, _, _, _, _)
inheritance_walk(current, visited, depth, ord, fuel) ==
    LET parent == find_parent(current, ord) IN
    IF fuel = 0 THEN [ok |-> FALSE, value |-> depth, err |-> "unfinished"]
    ELSE IF ~parent.some THEN [ok |-> TRUE, value |-> depth, err |-> ""]
    ELSE IF parent.value \in visited
         THEN [ok |-> FALSE, value |-> 0, err |-> "Cyclic inheritance detected"]
    ELSE inheritance_walk(parent.value, visited \cup {parent.value}, depth + 1, ord, fuel - 1)

calculate_inheritance_depth(file, ord) == inheritance_walk(file, {}, 0, ord, LoopFuel)

\* a variant of path_visit that enters every target, visited or not
RECURSIVE path_visit_unchecked(_, _, _)
path_visit_unchecked(es, current, st) ==
    IF es = <<>> THEN st
    ELSE path_visit_unchecked(Tail(es), current,
                    [queue |-> Append(st.queue, Head(es).target),
                     visited |-> st.visited \cup {Head(es).target},
                     parent_map |-> MapInsert(st.parent_map, Head(es).target, current)])

\* the inner `for edge in edges` of get_path_between; st = [queue, visited, parent_map]
RECURSIVE path_visit(_, _, _)
path_visit(es, current, st) ==
    IF es = <<>> THEN st
    ELSE IF Head(es).target \in st.visited THEN path_visit(Tail(es), current, st)
    ELSE path_visit(Tail(es), current,
                    [queue |-> Append(st.queue, Head(es).target),
                     visited |-> st.visited \cup {Head(es).target},
                     parent_map |-> MapInsert(st.parent_map, Head(es).target, current)])

\* the iterations of the loops of get_path_between that are followed: one more than
\* there are nodes; a path through Unfinished says a loop needed more
PathFuel == Cardinality(DOMAIN nodes) + 1
Unfinished == <<"unfinished">>

\* "Reconstruct path" in get_path_between: from `current` back to `start`, before the reversal
RECURSIVE path_back(_, _, _, _)
path_back(current, start, parent_map, fuel) ==
    IF current = start THEN <<start>>
    ELSE IF fuel = 0 THEN <<Unfinished>>
    ELSE <<current>> \o path_back(parent_map[current], start, parent_map, fuel - 1)

\* Vec::reverse
Reverse(s) == [i \in 1..Len(s) |-> s[Len(s) + 1 - i]]

\* the `while let Some(current) = queue.pop_front()` loop of get_path_between
RECURSIVE path_search(_, _, _, _, _)
path_search(st, start, end, ord, fuel) ==
    IF st.queue = <<>> THEN <<>>
    ELSE IF fuel = 0 THEN <<Unfinished>>
    ELSE LET current == Head(st.queue)
             rest == [st EXCEPT !.queue = Tail(@)]
         IN IF current = end THEN Reverse(path_back(current, start, st.parent_map, PathFuel))
            ELSE path_search(path_visit(EdgesIn(ord, current), current, rest), start, end, ord, fuel - 1)

get_path_between(start, end, ord) ==
    path_search([queue |-> <<start>>, visited |-> {start}, parent_map |-> EmptyMap],
                start, end, ord, PathFuel)

\* the inner `for edge in edges` of get_indirect_relationships; st = [queue, visited, relationships]
RECURSIVE indirect_visit(_, _, _, _, _)
indirect_visit(es, depth, file, st, ord) ==
    IF es = <<>> THEN st
    ELSE IF Head(es).target \in st.visited THEN indirect_visit(Tail(es), depth, file, st, ord)
    ELSE indirect_visit(Tail(es), depth, file,
             [queue |-> Append(st.queue, <<Head(es).target, depth + 1>>),
              visited |-> st.visited \cup {Head(es).target},
              relationships |-> Append(st.relationships,
                  [path |-> to_string_lossy(Head(es).target),
                   relationship_type |-> Head(es).edge_type,
                   depth |-> depth,
                   intermediate_nodes |-> get_path_between(file, Head(es).target, ord)])],
             ord)

\* the `while let Some((current, depth)) = queue.pop_front()` loop of get_indirect_relationships
RECURSIVE indirect_search(_, _, _)
indirect_search(st, file, ord) ==
    IF st.queue = <<>> THEN st.relationships
    ELSE LET current == Head(st.queue)[1]
             depth == Head(st.queue)[2]
             rest == [st EXCEPT !.queue = Tail(@)]
         IN IF depth > 3 THEN indirect_search(rest, file, ord)
            ELSE indirect_search(indirect_visit(EdgesIn(ord, current), depth, file, rest, ord), file, ord)

get_indirect_relationships(file, ord) ==
    indirect_search([queue |-> <<<<file, 0>>>>, visited |-> {file}, relationships |-> <<>>], file, ord)

\* an f64 quotient of two counts, kept as the pair it is computed from; 0.0 is 0/1
Quotient(num, den) == [num |-> num, den |-> den]

\* calculate_metrics: the error of calculate_inheritance_depth is returned with `?`
calculate_metrics(file, ord) ==
    LET incoming == Len(get_callers(file))
        outgoing == Cardinality(IndexedEdges(file))
        total_files == Cardinality(DOMAIN nodes)
        depth == calculate_inheritance_depth(file, ord)
    IN [ok |-> depth.ok, err |-> depth.err,
        value |-> [incoming_dependencies |-> incoming, outgoing_dependencies |-> outgoing,
                   cyclomatic_complexity |-> 0, depth_of_inheritance |-> depth.value,
                   coupling_factor |-> IF total_files > 0
                                       THEN Quotient(incoming + outgoing, total_files)
                                       ELSE Quotient(0, 1)]]

\* get_llamaindex_metadata: every part is taken with `?`; only calculate_metrics can fail
get_llamaindex_metadata(file, ord) ==
    LET metrics == calculate_metrics(file, ord) IN
    [ok |-> metrics.ok, err |-> metrics.err,
     value |-> [file_path |-> to_string_lossy(file),
                dependencies |-> get_dependencies(file, EdgesIn(ord, file)),
                callers |-> get_callers(file),
                direct |-> get_direct_relationships(file, ord),
                indirect |-> get_indirect_relationships(file, ord),
                metrics |-> metrics.value]]

GInit ==
    /\ nodes = EmptyMap
    /\ edges = <<>>
    /\ edge_index = EmptyMap
    /\ added = {}

\* batches of one or two facts
GraphBatches == {<<d>> : d \in GraphFacts} \cup {<<d, e>> : d \in GraphFacts, e \in GraphFacts}

GNext == \E deps \in GraphBatches : Len(edges) + Len(deps) <= MaxEdges /\ add_dependencies(deps)

\* a chain of nodes n0 -> n1 -> ... with a shortcut, a way back, a self-loop and a
\* second kind of edge between one pair
ChainNames == <<"n0", "n1", "n2", "n3", "n4", "n5", "n6">>
ChainNode(i) == <<ChainNames[i + 1]>>
ChainPaths == {ChainNode(i) : i \in 0..MaxChain}
ChainFact(i, j, kind) ==
    [source |-> ChainNode(i), target |-> ChainNode(j), dependency_type |-> kind, line_number |-> 0]
ChainFacts ==
    {ChainFact(i, i + 1, "Import") : i \in 0..(MaxChain - 1)}
    \cup {ChainFact(0, 2, "Import"), ChainFact(2, 0, "Import"), ChainFact(1, 1, "Usage"),
          ChainFact(0, 1, "FunctionCall")}

ChainNext == \E d \in ChainFacts : Len(edges) < MaxChain /\ add_dependencies(<<d>>)

(***************************************************************************)
(* LlamaIndexBridge (src/bridge/mod.rs): the analysis fed into the graph   *)
(***************************************************************************)
ScenarioFiles == {<<"a.rs">>, <<"b.rs">>, <<"c.rs">>}

\* the texts each file of the three-file project can have
ScenarioTexts ==
    (<<"a.rs">> :> {"use_b", "mod_b"}) @@
    (<<"b.rs">> :> {"fn_foo", "fn_foo_inline", "fn_foo_param"}) @@
    (<<"c.rs">> :> {"main_calls", "main_inline", "main_let"})

\* the project: a.rs imports b, b.rs defines foo, c.rs calls foo
ScenarioProjects ==
    {p \in [ScenarioFiles -> [content : DOMAIN SourceText, mtime : {1}]] :
        \A f \in ScenarioFiles : p[f].content \in ScenarioTexts[f]}

\* a file of the project can be unreadable during a run
ScenarioFaults == {NoFault, <<"proj", "b.rs">>}

\* LlamaIndexBridge::new: a manager for the root and an empty graph
bridge_new ==
    /\ mgr' = [live |-> state_file.kind # "unopenable",
               analyzed_files |-> IF state_file.kind = "valid"
                                  THEN state_file.analyzed_files ELSE EmptyMap]
    /\ result' = [op |-> "new", ok |-> state_file.kind # "unopenable",
                  dependencies |-> <<>>, pruned |-> {},
                  current_files |-> {}, project_structure |-> <<>>]
    /\ clean_runs' = 0
    /\ nodes' = EmptyMap
    /\ edges' = <<>>
    /\ edge_index' = EmptyMap
    /\ added' = {}
    /\ UNCHANGED <<variant, root, fs, state_file>> /\ UNCHANGED xvars

\* LlamaIndexBridge::initialize: analyze_project, then add_dependencies of what it
\* returned; an error of the analysis is returned before the graph is touched
initialize(order, fault) ==
    /\ variant = "analyzers::manager"
    /\ mgr.live
    /\ order \in Orders(files_to_analyze(fault))
    /\ LET st == process_files(order, LoopStart, fault)
           g == add_all([nodes |-> nodes, edges |-> edges, edge_index |-> edge_index],
                        st.all_dependencies)
       IN
       /\ mgr' = [mgr EXCEPT !.analyzed_files =
                     IF st.ok THEN MapRetain(st.analyzed_files, st.current_files)
                     ELSE st.analyzed_files]
       /\ result' = [op |-> "initialize", ok |-> st.ok,
                     dependencies |-> IF st.ok THEN st.all_dependencies ELSE <<>>,
                     pruned |-> IF st.ok THEN (DOMAIN st.analyzed_files) \ st.current_files ELSE {},
                     current_files |-> IF st.ok THEN st.current_files ELSE {},
                     project_structure |-> IF st.ok THEN build_directory_tree(<<>>, st.entries_by_path)
                                           ELSE <<>>]
       /\ clean_runs' = NextCleanRuns(st.ok, fault)
       /\ nodes' = IF st.ok THEN g.nodes ELSE nodes
       /\ edges' = IF st.ok THEN g.edges ELSE edges
       /\ edge_index' = IF st.ok THEN g.edge_index ELSE edge_index
       /\ added' = IF st.ok THEN added \cup Range(st.all_dependencies) ELSE added
    /\ UNCHANGED <<variant, root, fs, state_file>> /\ UNCHANGED xvars

BInit ==
    /\ variant = "analyzers::manager"
    /\ root = <<"proj">>
    /\ fs \in ScenarioProjects
    /\ state_file = [kind |-> "missing", analyzed_files |-> EmptyMap]
    /\ mgr = [live |-> FALSE, analyzed_files |-> EmptyMap]
    /\ result = [op |-> "none", ok |-> TRUE, dependencies |-> <<>>, pruned |-> {},
                  current_files |-> {}, project_structure |-> <<>>]
    /\ clean_runs = 0

BNext ==
    \/ bridge_new
    \/ \E fault \in ScenarioFaults : \E order \in Orders(files_to_analyze(fault)) :
           initialize(order, fault)

(***************************************************************************)
(* Part 3: the indexing layer                                              *)
(* EmbeddingCache and Embeddings (src/indexing/embeddings.rs)              *)
(***************************************************************************)
CacheKeys == {"k1", "k2", "k3"}
CacheVectors == {"v1"}
Procs == {1, 2}
NoKey == "-"

\* the configurations of a cache: max_size from 0, one ttl
CacheConfigs == [max_size : 0..MaxSize, ttl : {1}]

MapRemove(m, k) == [x \in (DOMAIN m) \ {k} |-> m[x]]

\* DashMap::len
CacheLen(c) == Cardinality(DOMAIN c)

\* a variant of Minima that lets any entry be chosen
Minima_any_entry(c) == DOMAIN c

\* the entries min_by_key can return: it returns the first minimum of the
\* iteration, and the iteration order of the map is not fixed
Minima(c) ==
    {k \in DOMAIN c : \A j \in DOMAIN c : c[k].access_count <= c[j].access_count}

\* evict_least_used, with the entry the iteration found; NoKey on an empty map
evict_least_used(c, victim) == IF victim = NoKey THEN c ELSE MapRemove(c, victim)

\* the entries evict_least_used can find
Victims(c) == IF DOMAIN c = {} THEN {NoKey} ELSE Minima(c)

CacheEntry(vector) == [vector |-> vector, last_accessed |-> now, access_count |-> 1]

Idle == [state |-> "idle", key |-> NoKey, vector |-> NoKey, victim |-> NoKey]

\* EmbeddingCache::insert, called while no other operation is running
insert(key, vector) ==
    /\ \A p \in Procs : pc[p] = Idle
    /\ \E victim \in (IF CacheLen(cache) >= config.max_size THEN Victims(cache) ELSE {NoKey}) :
          /\ cache' = MapInsert(evict_least_used(cache, victim), key, CacheEntry(vector))
          /\ cres' = [op |-> "insert", key |-> key, found |-> FALSE, vector |-> NoKey, evicted |-> victim]
    /\ UNCHANGED <<config, now, pc>> /\ UNCHANGED NotCache

\* EmbeddingCache::get: get_mut holds the entry's lock for the whole closure
get(key) ==
    /\ key \in DOMAIN cache => cache[key].access_count < MaxCount
    /\ IF key \in DOMAIN cache
       THEN /\ cache' = [cache EXCEPT ![key].last_accessed = now, ![key].access_count = @ + 1]
            /\ cres' = [op |-> "get", key |-> key, found |-> TRUE,
                        vector |-> cache[key].vector, evicted |-> NoKey]
       ELSE /\ cache' = cache
            /\ cres' = [op |-> "get", key |-> key, found |-> FALSE, vector |-> NoKey, evicted |-> NoKey]
    /\ UNCHANGED <<config, now, pc>> /\ UNCHANGED NotCache

\* the retain call of cleanup_expired_entries: an entry stays while its age is below the ttl
cleanup_retain(c) == [k \in {x \in DOMAIN c : now - c[x].last_accessed < config.ttl} |-> c[k]]

\* one round of the background task started by start_cleanup_task
cleanup_expired_entries ==
    /\ cache' = cleanup_retain(cache)
    /\ cres' = [op |-> "cleanup", key |-> NoKey, found |-> FALSE, vector |-> NoKey, evicted |-> NoKey]
    /\ UNCHANGED <<config, now, pc>> /\ UNCHANGED NotCache

\* time passes
tick ==
    /\ now < MaxClock
    /\ now' = now + 1
    /\ cres' = [op |-> "tick", key |-> NoKey, found |-> FALSE, vector |-> NoKey, evicted |-> NoKey]
    /\ UNCHANGED <<cache, config, pc>> /\ UNCHANGED NotCache

\* insert in the steps other threads can come between: the test of len()
insert_check(p, key, vector) ==
    /\ pc[p] = Idle
    /\ pc' = [pc EXCEPT ![p] = [state |-> IF CacheLen(cache) >= config.max_size THEN "evict" ELSE "put",
                                key |-> key, vector |-> vector, victim |-> NoKey]]
    /\ UNCHANGED <<cache, config, now, cres>> /\ UNCHANGED NotCache

\* the iteration of evict_least_used
evict_pick(p) ==
    /\ pc[p].state = "evict"
    /\ \E victim \in Victims(cache) :
          pc' = [pc EXCEPT ![p].state = "remove", ![p].victim = victim]
    /\ UNCHANGED <<cache, config, now, cres>> /\ UNCHANGED NotCache

\* self.cache.remove(&key) of evict_least_used
evict_remove(p) ==
    /\ pc[p].state = "remove"
    /\ cache' = evict_least_used(cache, pc[p].victim)
    /\ pc' = [pc EXCEPT ![p].state = "put"]
    /\ UNCHANGED <<config, now, cres>> /\ UNCHANGED NotCache

\* self.cache.insert(key, CacheEntry { .. }) of insert
insert_put(p) ==
    /\ pc[p].state = "put"
    /\ cache' = MapInsert(cache, pc[p].key, CacheEntry(pc[p].vector))
    /\ cres' = [op |-> "insert", key |-> pc[p].key, found |-> FALSE, vector |-> NoKey,
                evicted |-> pc[p].victim]
    /\ pc' = [pc EXCEPT ![p] = Idle]
    /\ UNCHANGED <<config, now>> /\ UNCHANGED NotCache

\* EmbeddingCache::new
CInit ==
    /\ cache = EmptyMap
    /\ config \in CacheConfigs
    /\ now = 0
    /\ pc = [p \in Procs |-> Idle]
    /\ cres = [op |-> "new", key |-> NoKey, found |-> FALSE, vector |-> NoKey, evicted |-> NoKey]

\* no cache is in use
CIdle ==
    /\ cache = EmptyMap
    /\ config = [max_size |-> 0, ttl |-> 1]
    /\ now = 0
    /\ pc = [p \in Procs |-> Idle]
    /\ cres = [op |-> "none", key |-> NoKey, found |-> FALSE, vector |-> NoKey, evicted |-> NoKey]

\* one caller at a time
CNext ==
    \/ \E key \in CacheKeys, vector \in CacheVectors : insert(key, vector)
    \/ \E key \in CacheKeys : get(key)
    \/ cleanup_expired_entries
    \/ tick

\* the key each thread inserts
ThreadKey == (1 :> "k1") @@ (2 :> "k2")

\* two threads and the background task
CNextConcurrent ==
    \/ \E p \in Procs, vector \in CacheVectors : insert_check(p, ThreadKey[p], vector)
    \/ \E p \in Procs : evict_pick(p)
    \/ \E p \in Procs : evict_remove(p)
    \/ \E p \in Procs : insert_put(p)
    \/ \E key \in Range(ThreadKey) : get(key)
    \/ cleanup_expired_entries
    \/ tick

(***************************************************************************)
(* Embeddings::embed_chunks                                                *)
(***************************************************************************)
EmbTexts == {"t1", "t2"}

\* the chunk lists handed to embed_chunks
ChunkLists == UNION {[1..n -> [content : EmbTexts]] : n \in 1..MaxChunks}

\* Model::embed_text, when it succeeds
model_embed(text) == <<"embedding", text>>

\* embed_text; `failing` are the texts for which the model's call fails; c is the cache
embed_text(text, failing, c) ==
    IF text \in DOMAIN c THEN [ok |-> TRUE, value |-> c[text], cache |-> c]
    ELSE IF text \in failing THEN [ok |-> FALSE, value |-> <<>>, cache |-> c]
    ELSE [ok |-> TRUE, value |-> model_embed(text), cache |-> MapInsert(c, text, model_embed(text))]

\* `for chunk in chunk_batch`, the results of the batch appended to those before;
\* st = [ok, results, cache]
RECURSIVE embed_batch(_, _, _)
embed_batch(chunk_batch, failing, st) ==
    IF chunk_batch = <<>> \/ ~st.ok THEN st
    ELSE LET e == embed_text(Head(chunk_batch).content, failing, st.cache) IN
         IF ~e.ok THEN [st EXCEPT !.ok = FALSE]
         ELSE embed_batch(Tail(chunk_batch), failing,
                  [ok |-> TRUE, results |-> Append(st.results, <<Head(chunk_batch), e.value>>),
                   cache |-> e.cache])

\* `for chunk_batch in chunks.chunks(batch_size)`
RECURSIVE embed_batches(_, _, _, _)
embed_batches(chunks, batch_size, failing, st) ==
    IF chunks = <<>> \/ ~st.ok THEN st
    ELSE LET n == IF Len(chunks) < batch_size THEN Len(chunks) ELSE batch_size IN
         embed_batches(SubSeq(chunks, n + 1, Len(chunks)), batch_size, failing,
                       embed_batch(SubSeq(chunks, 1, n), failing, st))

embed_chunks(chunks, failing) ==
    /\ LET st == embed_batches(chunks, emb_config.batch_size, failing,
                               [ok |-> TRUE, results |-> <<>>, cache |-> emb_cache])
       IN /\ emb_cache' = st.cache
          /\ emb_result' = [called |-> TRUE, chunks |-> chunks, failing |-> failing,
                            cached |-> DOMAIN emb_cache, ok |-> st.ok,
                            results |-> IF st.ok THEN st.results ELSE <<>>]
    /\ UNCHANGED emb_config /\ UNCHANGED NotEmbeddings

NoCall == [called |-> FALSE, chunks |-> <<>>, failing |-> {}, cached |-> {}, ok |-> TRUE, results |-> <<>>]

\* Embeddings::new
EInit ==
    /\ emb_cache = EmptyMap
    /\ emb_config \in [batch_size : {1, 2}]
    /\ emb_result = NoCall

EIdle ==
    /\ emb_cache = EmptyMap
    /\ emb_config = [batch_size |-> 1]
    /\ emb_result = NoCall

ENext == \E chunks \in ChunkLists, failing \in SUBSET EmbTexts : embed_chunks(chunks, failing)

(***************************************************************************)
(* VectorIndex (src/indexing/store/common.rs) behind CodeVectorStore       *)
(* (src/indexing/store/code_store.rs)                                      *)
(***************************************************************************)
\* the analyses handed to the store: the file of the first function, if there is one
IndexItems == [file : {"p1", "p2", "p3"}, functions : {0, 1}]

\* create_vector: the features of the analysis
create_vector(item) == [features_of |-> item.file]

\* create_metadata: `analysis.base.functions[0]` panics without a function
create_metadata(item) ==
    IF item.functions = 0 THEN [ok |-> FALSE, value |-> [id |-> 0, path |-> "", modality |-> "code"]]
    ELSE [ok |-> TRUE, value |-> [id |-> 0, path |-> item.file, modality |-> "code"]]

\* VectorIndex::add; ix = [vectors, metadata]
add(ix, vector, md) ==
    LET id == Len(ix.vectors) IN
    [vectors |-> Append(ix.vectors, vector), metadata |-> MapInsert(ix.metadata, id, md)]

\* CodeVectorStore::add
store_add(item) ==
    /\ Len(vectors) < MaxItems
    /\ LET md == create_metadata(item)
           ix == add([vectors |-> vectors, metadata |-> metadata], create_vector(item), md.value)
       IN IF md.ok
          THEN /\ vectors' = ix.vectors
               /\ metadata' = ix.metadata
               /\ passed' = Append(passed, [vector |-> create_vector(item), metadata |-> md.value])
               /\ store_result' = "Ok"
          ELSE /\ UNCHANGED <<vectors, metadata, passed>>
               /\ store_result' = "panic"
    /\ UNCHANGED NotIndex

\* VectorIndex::new
IInit ==
    /\ vectors = <<>>
    /\ metadata = EmptyMap
    /\ passed = <<>>
    /\ store_result = "none"

IIdle == IInit

INext == \E item \in IndexItems : store_add(item)

(***************************************************************************)
(* VectorIndex::search (src/indexing/store/common.rs)                      *)
(***************************************************************************)
\* the vectors added and searched for: their norms are whole numbers, so every f32
\* operation before the final division is exact
SearchVectors == {<<0, 0>>, <<1, 0>>, <<0, 1>>, <<3, 4>>, <<4, 3>>}

RECURSIVE Sum(_)
Sum(s) == IF s = <<>> THEN 0 ELSE Head(s) + Sum(Tail(s))

Min(a, b) == IF a < b THEN a ELSE b

\* f32::sqrt, of a square
sqrt(n) == CHOOSE r \in 0..n : r * r = n

\* a.iter().zip(b.iter()).map(|(x, y)| x * y).sum()
dot_product(a, b) == Sum([i \in 1..Min(Len(a), Len(b)) |-> a[i] * b[i]])

\* a.iter().map(|x| x * x).sum::<f32>().sqrt()
norm(a) == sqrt(Sum([i \in 1..Len(a) |-> a[i] * a[i]]))

\* cosine_similarity with the test of the norms (EmbeddingVector::cosine_similarity)
cosine_similarity_guarded(a, b) ==
    IF norm(a) = 0 \/ norm(b) = 0 THEN Quotient(0, 1)
    ELSE Quotient(dot_product(a, b), norm(a) * norm(b))

\* cosine_similarity of store/common.rs (and of store.rs): the f32 quotient as the
\* pair it is computed from; the quotient 0.0 / 0.0 of a zero norm is NaN
cosine_similarity(a, b) == Quotient(dot_product(a, b), norm(a) * norm(b))

\* f32::is_nan
is_nan(x) == x.den = 0

\* x >= y of two f32 quotients: false when one of them is NaN
Geq(x, y) == ~is_nan(x) /\ ~is_nan(y) /\ x.num * y.den >= y.num * x.den

\* scores.sort_by(|a, b| b.1.partial_cmp(&a.1)): the stable sort, largest similarity first
RECURSIVE sort_by(_)
sort_by(scores) ==
    IF scores = <<>> THEN <<>>
    ELSE LET Place(front, x) ==
                 SelectSeq(front, LAMBDA y : Geq(y[2], x[2])) \o <<x>>
                 \o SelectSeq(front, LAMBDA y : ~Geq(y[2], x[2]))
         IN Place(sort_by(SubSeq(scores, 1, Len(scores) - 1)), scores[Len(scores)])

\* VectorIndex::search: `partial_cmp(..).unwrap()` panics when the sort compares a NaN,
\* which it does as soon as there are two scores
search(vs, query, k) ==
    LET Ranked(scores) ==
            IF Len(scores) >= 2 /\ \E i \in 1..Len(scores) : is_nan(scores[i][2])
            THEN [ok |-> FALSE, value |-> <<>>]
            ELSE [ok |-> TRUE, value |-> SubSeq(sort_by(scores), 1, Min(k, Len(scores)))]
    IN Ranked([i \in 1..Len(vs) |-> <<i - 1, cosine_similarity(query, vs[i])>>])

\* VectorIndex::add of a vector
index_add(vector) ==
    /\ Len(vectors) < MaxCorpus
    /\ LET md == [id |-> 0, path |-> "", modality |-> "code"]
           ix == add([vectors |-> vectors, metadata |-> metadata], vector, md)
       IN /\ vectors' = ix.vectors
          /\ metadata' = ix.metadata
          /\ passed' = Append(passed, [vector |-> vector, metadata |-> md])
    /\ store_result' = [op |-> "add", query |-> <<>>, k |-> 0, ok |-> TRUE, value |-> <<>>]
    /\ UNCHANGED NotIndex

\* a call of VectorIndex::search
index_search(query, k) ==
    /\ LET r == search(vectors, query, k) IN
       store_result' = [op |-> "search", query |-> query, k |-> k, ok |-> r.ok, value |-> r.value]
    /\ UNCHANGED <<vectors, metadata, passed>> /\ UNCHANGED NotIndex

\* VectorIndex::new, before a search
SInit ==
    /\ vectors = <<>>
    /\ metadata = EmptyMap
    /\ passed = <<>>
    /\ store_result = [op |-> "new", query |-> <<>>, k |-> 0, ok |-> TRUE, value |-> <<>>]

SNext ==
    \/ \E vector \in SearchVectors : index_add(vector)
    \/ \E query \in SearchVectors, k \in 0..(MaxCorpus + 1) : index_search(query, k)

(***************************************************************************)
(* Embeddings::create_overlapping_chunks (src/indexing/embeddings.rs)      *)
(* A text is the sequence of its tokens; a chunk is <<start, end>>, the    *)
(* tokens token_ids[start..end] it is decoded from.                        *)
(***************************************************************************)
\* arithmetic of usize where overflow is not checked
usize_wrap(n) == n % (2 ^ UsizeBits)

\* a build checks the overflow of + and - (debug) or wraps (release)
Builds == {"debug", "release"}

\* the iterations of the loop of create_overlapping_chunks that are followed: a loop
\* whose start advances needs no more; the outcome "unfinished" says it needed more
ChunkFuel(len) == len + 1

\* `while start < token_ids.len()`; starts holds the value of start before every
\* iteration and after the last
RECURSIVE chunk_loop(_, _, _, _, _, _, _)
chunk_loop(len, cfg, build, start, chunks, starts, fuel) ==
    IF ~(start < len) THEN [outcome |-> "returned", chunks |-> chunks, starts |-> Append(starts, start)]
    ELSE IF fuel = 0
    THEN [outcome |-> "unfinished", chunks |-> chunks, starts |-> Append(starts, start)]
    ELSE IF cfg.chunk_size < cfg.chunk_overlap /\ build = "debug"
    THEN [outcome |-> "panicked", chunks |-> <<>>, starts |-> Append(starts, start)]
    ELSE chunk_loop(len, cfg, build,
                    usize_wrap(start + usize_wrap(cfg.chunk_size - cfg.chunk_overlap)),
                    Append(chunks, <<start, Min(start + cfg.chunk_size, len)>>),
                    Append(starts, start), fuel - 1)

\* create_overlapping_chunks on a text of len tokens
create_overlapping_chunks(len, cfg, build) ==
    IF len <= cfg.chunk_size
    THEN [outcome |-> "returned", chunks |-> <<<<0, len>>>>, starts |-> <<>>]
    ELSE chunk_loop(len, cfg, build, 0, <<>>, <<>>, ChunkFuel(len))

chunk_call(len, cfg, build) ==
    /\ chunker' = [called |-> TRUE, len |-> len, config |-> cfg, build |-> build,
                   result |-> create_overlapping_chunks(len, cfg, build)]
    /\ UNCHANGED <<mvars, gvars, cvars, evars, ivars, tasks, written, dvars>>

ChunkConfigs == [chunk_size : 0..MaxChunkSize, chunk_overlap : 0..MaxChunkSize]

NoChunks ==
    [called |-> FALSE, len |-> 0, config |-> [chunk_size |-> 1, chunk_overlap |-> 0],
     build |-> "debug", result |-> [outcome |-> "returned", chunks |-> <<>>, starts |-> <<>>]]

KNext == \E len \in 0..MaxTokens, cfg \in ChunkConfigs, build \in Builds : chunk_call(len, cfg, build)

(***************************************************************************)
(* Embeddings::embed_text called by concurrent tasks                       *)
(* (src/indexing/embeddings.rs).  The cache is a DashMap: a Ref returned   *)
(* by get holds the read lock of the shard of its key until it is dropped, *)
(* and insert takes the write lock of the shard.  The keys of the model    *)
(* are in one shard.                                                       *)
(***************************************************************************)
\* what the model can return for a text
ModelVectors == {"e1", "e2"}

NoTask == [state |-> "idle", text |-> NoKey, guard |-> NoKey, value |-> NoKey]

\* the tasks other than p that hold a lock of the shard
Holders(p) == {q \in Procs \ {p} : tasks[q].guard # NoKey}

\* a get that leaves the shard locked when the key is absent
cache_get_locking(c, text) ==
    IF text \in DOMAIN c THEN [found |-> TRUE, value |-> c[text], guard |-> text]
    ELSE [found |-> FALSE, value |-> NoKey, guard |-> text]

\* DashMap::get: Some(Ref), which holds the read lock of the shard, or None, which
\* holds nothing
cache_get(c, text) ==
    IF text \in DOMAIN c THEN [found |-> TRUE, value |-> c[text], guard |-> text]
    ELSE [found |-> FALSE, value |-> NoKey, guard |-> NoKey]

\* "Check cache first": on a hit the clone is returned and the Ref dropped; on a miss
\* the task goes on to the call of the model, with what the lookup left locked
embed_text_check(p, text) ==
    /\ tasks[p].state = "idle"
    /\ LET Checked(r) ==
               tasks' = [tasks EXCEPT ![p] =
                            IF r.found
                            THEN [state |-> "returned", text |-> text, guard |-> NoKey, value |-> r.value]
                            ELSE [state |-> "awaiting", text |-> text, guard |-> r.guard, value |-> NoKey]]
       IN Checked(cache_get(emb_cache, text))
    /\ UNCHANGED <<mvars, gvars, cvars, evars, ivars, chunker, written, dvars>>

\* `self.model.embed_text(text).await?`: the task is resumed with an embedding
embed_text_resume(p, embedding) ==
    /\ tasks[p].state = "awaiting"
    /\ tasks' = [tasks EXCEPT ![p].state = "embedded", ![p].value = embedding]
    /\ UNCHANGED <<mvars, gvars, cvars, evars, ivars, chunker, written, dvars>>

\* `self.model.embed_text(text).await?`: the task is resumed with an error and returns it
embed_text_fail(p) ==
    /\ tasks[p].state = "awaiting"
    /\ tasks' = [tasks EXCEPT ![p].state = "failed", ![p].guard = NoKey]
    /\ UNCHANGED <<mvars, gvars, cvars, evars, ivars, chunker, written, dvars>>

\* "Cache the result": DashMap::insert, which replaces the value of a key that is present
embed_text_insert(p) ==
    /\ tasks[p].state = "embedded"
    /\ Holders(p) = {}
    /\ emb_cache' = MapInsert(emb_cache, tasks[p].text, tasks[p].value)
    /\ written' = Append(written, <<tasks[p].text, tasks[p].value>>)
    /\ tasks' = [tasks EXCEPT ![p].state = "returned", ![p].guard = NoKey]
    /\ UNCHANGED <<mvars, gvars, cvars, ivars, chunker, dvars, emb_config, emb_result>>

TInit ==
    /\ emb_cache = EmptyMap
    /\ emb_config = [batch_size |-> 1]
    /\ emb_result = NoCall
    /\ tasks = [p \in Procs |-> NoTask]
    /\ written = <<>>

TNext ==
    \/ \E p \in Procs, text \in EmbTexts : embed_text_check(p, text)
    \/ \E p \in Procs, embedding \in ModelVectors : embed_text_resume(p, embedding)
    \/ \E p \in Procs : embed_text_fail(p)
    \/ \E p \in Procs : embed_text_insert(p)

(***************************************************************************)
(* EmbeddingIndex (src/indexing/embedding_index.rs)                        *)
(* The values of the vectors are counted in tenths, which leaves the       *)
(* cosine similarity as it is; a TextChunk is named by the position of     *)
(* its vector.                                                             *)
(***************************************************************************)
EmbVectors == {<<0, 0>>, <<3, 4>>, <<4, 3>>, <<0, 5>>}

\* `let threshold = 0.1`, in tenths
Tolerance == 1

Abs(x) == IF x < 0 THEN 0 - x ELSE x

Max(a, b) == IF a < b THEN b ELSE a

\* values.sort_by(|a, b| a.0.partial_cmp(&b.0)): the stable sort, smallest value first
RECURSIVE sort_values(_)
sort_values(values) ==
    IF values = <<>> THEN <<>>
    ELSE LET Place(front, x) ==
                 SelectSeq(front, LAMBDA y : y[1] <= x[1]) \o <<x>>
                 \o SelectSeq(front, LAMBDA y : y[1] > x[1])
         IN Place(sort_values(SubSeq(values, 1, Len(values) - 1)), values[Len(values)])

\* EmbeddingIndex::add
embedding_index_add(ix, vector) ==
    LET vector_idx == Len(ix.vectors)
        dims == Min(Len(vector), ix.config.num_dimensions_to_index)
        Values(d) == IF d <= Len(ix.dimension_indices) THEN ix.dimension_indices[d] ELSE <<>>
    IN [ix EXCEPT !.vectors = Append(@, vector),
                  !.dimension_indices =
                      [d \in 1..Max(dims, Len(ix.dimension_indices)) |->
                          IF d <= dims THEN sort_values(Append(Values(d), <<vector[d], vector_idx>>))
                          ELSE Values(d)]]

\* binary_search_by: the position of an entry with the value, the first or the last
\* of them, or the position where the value would be inserted; positions from 0
binary_search_by(values, value, pick) ==
    LET found == {i \in 0..(Len(values) - 1) : values[i + 1][1] = value}
    IN IF found = {} THEN Cardinality({i \in 1..Len(values) : values[i][1] < value})
       ELSE IF pick = "first" THEN CHOOSE i \in found : \A j \in found : i <= j
       ELSE CHOOSE i \in found : \A j \in found : j <= i

\* `while left > 0 && (index.values[left - 1].0 - value).abs() <= threshold`
RECURSIVE left_scan(_, _, _)
left_scan(values, value, left) ==
    IF left > 0 /\ Abs(values[left][1] - value) <= Tolerance
    THEN <<values[left][2]>> \o left_scan(values, value, left - 1)
    ELSE <<>>

\* `while right < index.values.len() && (index.values[right].0 - value).abs() <= threshold`
RECURSIVE right_scan(_, _, _)
right_scan(values, value, right) ==
    IF right < Len(values) /\ Abs(values[right + 1][1] - value) <= Tolerance
    THEN <<values[right + 1][2]>> \o right_scan(values, value, right + 1)
    ELSE <<>>

\* find_similar_in_dimension that returns every vector of the dimension
find_similar_in_dimension_all(values, value, pick) == [i \in 1..Len(values) |-> values[i][2]]

find_similar_in_dimension(values, value, pick) ==
    LET Scan(start_idx) == left_scan(values, value, start_idx) \o right_scan(values, value, start_idx)
    IN Scan(binary_search_by(values, value, pick))

\* find_candidates; `&self.dimension_indices[dim_idx]` panics when the query has an
\* indexed dimension that no vector of the index has
find_candidates(ix, query, pick) ==
    LET dims == Min(Len(query), ix.config.num_dimensions_to_index)
        Similar(d) == find_similar_in_dimension(ix.dimension_indices[d], query[d], pick)
        Score(idx) == Sum([d \in 1..dims |-> Len(SelectSeq(Similar(d), LAMBDA v : v = idx))])
    IN IF dims > Len(ix.dimension_indices) THEN [ok |-> FALSE, value |-> {}]
       ELSE [ok |-> TRUE,
             value |-> {idx \in 0..(Len(ix.vectors) - 1) :
                           Score(idx) > ix.config.num_dimensions_to_index \div 3}]

\* EmbeddingIndex::search on the candidates in the order `ord` in which the HashMap
\* hands them out
embedding_index_search(ix, query, top_k, ord) ==
    LET Ranked(results) == SubSeq(sort_by(results), 1, Min(top_k, Len(results)))
    IN Ranked(SelectSeq([i \in 1..Len(ord) |->
                            <<ord[i], cosine_similarity_guarded(ix.vectors[ord[i] + 1], query)>>],
                        LAMBDA r : Geq(r[2], ix.config.similarity_threshold)))

\* the thresholds 0.0, 0.7 and 0.9 with one to three indexed dimensions
EmbIndexConfigs == [num_dimensions_to_index : 1..3,
                    similarity_threshold : {Quotient(0, 1), Quotient(7, 10), Quotient(9, 10)}]

eindex_add(vector) ==
    /\ Len(eindex.vectors) < MaxIndexed
    /\ eindex' = embedding_index_add(eindex, vector)
    /\ eresult' = [op |-> "add", query |-> <<>>, top_k |-> 0, ok |-> TRUE, value |-> <<>>]
    /\ UNCHANGED <<mvars, gvars, cvars, evars, ivars, chunker, tasks, written>>

eindex_search(query, top_k, pick) ==
    /\ LET Found(c) ==
               IF ~c.ok
               THEN eresult' = [op |-> "search", query |-> query, top_k |-> top_k,
                                ok |-> FALSE, value |-> <<>>]
               ELSE \E ord \in Orders(c.value) :
                        eresult' = [op |-> "search", query |-> query, top_k |-> top_k, ok |-> TRUE,
                                    value |-> embedding_index_search(eindex, query, top_k, ord)]
       IN Found(find_candidates(eindex, query, pick))
    /\ UNCHANGED <<mvars, gvars, cvars, evars, ivars, chunker, tasks, written, eindex>>

\* EmbeddingIndex::new
DInit ==
    /\ eindex \in [vectors : {<<>>}, dimension_indices : {<<>>}, config : EmbIndexConfigs]
    /\ eresult = [op |-> "new", query |-> <<>>, top_k |-> 0, ok |-> TRUE, value |-> <<>>]

DNext ==
    \/ \E vector \in EmbVectors : eindex_add(vector)
    \/ \E query \in EmbVectors, top_k \in 0..MaxIndexed, pick \in {"first", "last"} :
           eindex_search(query, top_k, pick)

DIdle ==
    /\ eindex = [vectors |-> <<>>, dimension_indices |-> <<>>,
                 config |-> [num_dimensions_to_index |-> 1, similarity_threshold |-> Quotient(0, 1)]]
    /\ eresult = [op |-> "new", query |-> <<>>, top_k |-> 0, ok |-> TRUE, value |-> <<>>]

KIdle ==
    /\ chunker = NoChunks
    /\ tasks = [p \in Procs |-> NoTask]
    /\ written = <<>>
    /\ DIdle

\* the indexing layer not in use
XIdle == CIdle /\ EIdle /\ IIdle /\ KIdle

(***************************************************************************)
(* Specifications                                                          *)
(***************************************************************************)
vars == <<mvars, gvars, cvars, evars, ivars, kvars>>

\* the analysis manager on a changing project; the graph is not used
Init == MInit /\ GInit /\ XIdle
Next == MNext
Spec == Init /\ [][Next]_vars

\* the same with the manager of src/analysis/analyzers.rs alone, which reuses the
\* cached dependencies of unchanged files and saves the state: C1_Idempotent,
\* C3_ReuseOrRefresh and C5_Persisted hold under it
InitLegacy == Init /\ variant = "analysis::analyzers"
SpecLegacy == InitLegacy /\ [][Next]_vars

\* the dependency graph being filled; the manager is not used
MIdle ==
    /\ variant = "analyzers::manager"
    /\ root = <<"proj">>
    /\ fs = StaticContent
    /\ state_file = [kind |-> "missing", analyzed_files |-> EmptyMap]
    /\ mgr = [live |-> FALSE, analyzed_files |-> EmptyMap]
    /\ result = [op |-> "none", ok |-> TRUE, dependencies |-> <<>>, pruned |-> {},
                  current_files |-> {}, project_structure |-> <<>>]
    /\ clean_runs = 0
InitGraph == MIdle /\ GInit /\ XIdle
NextGraph == GNext
SpecGraph == InitGraph /\ [][NextGraph]_vars

\* the dependency graph filled with chains of edges
NextChain == ChainNext
SpecChain == InitGraph /\ [][NextChain]_vars

\* the bridge on the three-file project: the analysis run and the graph it fills
InitBridge == BInit /\ GInit /\ XIdle
NextBridge == BNext
SpecBridge == InitBridge /\ [][NextBridge]_vars

\* an EmbeddingCache used by one caller at a time, with its cleanup task
InitCache == MIdle /\ GInit /\ CInit /\ EIdle /\ IIdle /\ KIdle
NextCache == CNext
SpecCache == InitCache /\ [][NextCache]_vars

\* an EmbeddingCache shared by two threads
NextCacheConcurrent == CNextConcurrent
SpecCacheConcurrent == InitCache /\ [][NextCacheConcurrent]_vars

\* Embeddings::embed_chunks on a model that can fail
InitEmbeddings == MIdle /\ GInit /\ CIdle /\ EInit /\ IIdle /\ KIdle
NextEmbeddings == ENext
SpecEmbeddings == InitEmbeddings /\ [][NextEmbeddings]_vars

\* a VectorIndex being filled and searched
InitSearch == MIdle /\ GInit /\ CIdle /\ EIdle /\ SInit /\ KIdle
NextSearch == SNext
SpecSearch == InitSearch /\ [][NextSearch]_vars

\* a CodeVectorStore being filled
\* create_overlapping_chunks on texts and configurations of all kinds
InitChunks == MIdle /\ GInit /\ XIdle
NextChunks == KNext
SpecChunks == InitChunks /\ [][NextChunks]_vars

\* two tasks in embed_text on one Embeddings
InitTasks == MIdle /\ GInit /\ CIdle /\ IIdle /\ chunker = NoChunks /\ DIdle /\ TInit
NextTasks == TNext
SpecTasks == InitTasks /\ [][NextTasks]_vars

\* an EmbeddingIndex that is filled and searched
InitEmbeddingIndex ==
    /\ MIdle /\ GInit /\ CIdle /\ EIdle /\ IIdle
    /\ chunker = NoChunks /\ tasks = [p \in Procs |-> NoTask] /\ written = <<>>
    /\ DInit
NextEmbeddingIndex == DNext
SpecEmbeddingIndex == InitEmbeddingIndex /\ [][NextEmbeddingIndex]_vars

InitIndex == MIdle /\ GInit /\ CIdle /\ EIdle /\ IInit /\ KIdle
NextIndex == INext
SpecIndex == InitIndex /\ [][NextIndex]_vars

(***************************************************************************)
(* Properties of the analysis manager                                      *)
(***************************************************************************)
\* this step is a run of analyze_project (of either version) under the given fault
RunStep(fault) ==
    /\ fs' = fs /\ root' = root /\ result'.op = "analyze_project" /\ mgr.live
    /\ \/ \E order \in Orders(files_to_analyze(fault)) : analyze_project(order, fault)
       \/ \E order \in Orders(files_to_analyze(fault)) :
              \E seen \in 0..Len(order) : legacy_analyze_project(order, fault, seen)

\* the dependency facts of a run's output that have the given source, in order
RECURSIVE DepsOf(_, _)
DepsOf(deps, path) ==
    IF deps = <<>> THEN <<>>
    ELSE IF Head(deps).source = path
         THEN <<Head(deps)>> \o DepsOf(Tail(deps), path)
         ELSE DepsOf(Tail(deps), path)

\* the files with a registered analyzer that a fault-free walk observes
Analyzable == {p \in files_to_analyze(NoFault) : get_analyzer_for_file(p) # "None"}

\* the FileState a fresh analysis of the file stores
FreshState(p) ==
    [last_modified |-> fs[Rel(p)].mtime,
     dependencies |-> analyze(p, NoFault).deps,
     hash |-> md5(fs[Rel(p)].content)]

\* C1: a second successful run of analyze_project, with nothing changed on
\* disk since the first, returns the same set of Dependency facts as the first
\* and leaves analyzed_files as it was.
C1_Idempotent ==
    [][(clean_runs >= 1 /\ result'.ok /\ RunStep(NoFault))
          => /\ Range(result'.dependencies) = Range(result.dependencies)
             /\ mgr'.analyzed_files = mgr.analyzed_files]_vars

\* C2: for a file on disk, needs_analysis is true when the file has no
\* FileState, when its content hash differs from the stored hash (whatever the
\* modification times), and when its modification time is strictly newer than
\* the stored one with an unchanged hash.
C2_ChangeDetection ==
    \A f \in DOMAIN fs :
        LET p == Join(root, f)
            na == needs_analysis(mgr.analyzed_files, p, NoFault)
        IN /\ na.ok
           /\ p \notin DOMAIN mgr.analyzed_files => na.value
           /\ p \in DOMAIN mgr.analyzed_files =>
                 LET state == mgr.analyzed_files[p] IN
                 /\ md5(fs[f].content) # state.hash => na.value
                 /\ (fs[f].mtime > state.last_modified /\ md5(fs[f].content) = state.hash) => na.value

\* C2 witness: two tracked files that need analysis: a.py was touched (newer
\* modification time, same content hash), src/target.rs has new content under
\* its old modification time
C2_Witness ==
    /\ mgr.live
    /\ FileA \in DOMAIN fs /\ FileB \in DOMAIN fs
    /\ Join(root, FileA) \in DOMAIN mgr.analyzed_files
    /\ Join(root, FileB) \in DOMAIN mgr.analyzed_files
    /\ md5(fs[FileA].content) = mgr.analyzed_files[Join(root, FileA)].hash
    /\ fs[FileA].mtime > mgr.analyzed_files[Join(root, FileA)].last_modified
    /\ md5(fs[FileB].content) # mgr.analyzed_files[Join(root, FileB)].hash
    /\ fs[FileB].mtime = mgr.analyzed_files[Join(root, FileB)].last_modified
    /\ needs_analysis(mgr.analyzed_files, Join(root, FileA), NoFault).value
    /\ needs_analysis(mgr.analyzed_files, Join(root, FileB), NoFault).value

\* C3: in a successful run, a file with an analyzer that does not need analysis
\* contributes exactly the dependencies stored in its FileState to the output;
\* a file that needs analysis contributes the analyzer's fresh output and its
\* FileState is replaced by the fresh one.
C3_ReuseOrRefresh ==
    [][(result'.ok /\ RunStep(NoFault))
          => \A p \in Analyzable :
                IF needs_analysis(mgr.analyzed_files, p, NoFault).value
                THEN /\ DepsOf(result'.dependencies, p) = analyze(p, NoFault).deps
                     /\ p \in DOMAIN mgr'.analyzed_files
                     /\ mgr'.analyzed_files[p] = FreshState(p)
                ELSE DepsOf(result'.dependencies, p) = mgr.analyzed_files[p].dependencies]_vars

\* C4: after a run that returns successfully every key of analyzed_files is a
\* file the run's walk observed, and a tracked file that is no longer on disk
\* has no FileState.
C4_PrunedToWalk ==
    [][\A fault \in Faults :
          (result'.ok /\ RunStep(fault))
             => /\ DOMAIN mgr'.analyzed_files \subseteq files_to_analyze(fault)
                /\ \A p \in DOMAIN mgr.analyzed_files :
                       Rel(p) \notin DOMAIN fs => p \notin DOMAIN mgr'.analyzed_files]_vars

\* C4 witness: a successful run has just dropped the FileState of a file that
\* is not on disk
C4_Witness ==
    /\ result.op = "analyze_project" /\ result.ok /\ clean_runs >= 1
    /\ result.pruned # {}
    /\ \A p \in result.pruned : Rel(p) \notin DOMAIN fs /\ p \notin DOMAIN mgr.analyzed_files

\* C5: when analyze_project has returned successfully the state file holds the
\* run's analyzed_files, a manager constructed then starts with that map, and a
\* run that does not return successfully leaves the state file alone.
C5_Persisted ==
    /\ [](clean_runs >= 1 => state_file = [kind |-> "valid", analyzed_files |-> mgr.analyzed_files])
    /\ [][(clean_runs >= 1 /\ new) => (mgr'.live /\ mgr'.analyzed_files = mgr.analyzed_files)]_vars
    /\ [][\A fault \in Faults : (~result'.ok /\ RunStep(fault)) => state_file' = state_file]_vars

\* C6: when one analyzable file cannot be read during a run, the run still
\* returns successfully, with the dependencies of every other analyzable file,
\* and those files have an up-to-date FileState.
C6_FileErrorSkipped ==
    [][\A f \in DynamicFiles :
          (Join(root, f) \in Analyzable /\ RunStep(Join(root, f)))
             => /\ result'.ok
                /\ \A q \in Analyzable \ {Join(root, f)} :
                      /\ q \in DOMAIN mgr'.analyzed_files
                      /\ mgr'.analyzed_files[q] = FreshState(q)
                      /\ DepsOf(result'.dependencies, q) = analyze(q, NoFault).deps]_vars

\* C7: new returns a manager whatever the state file is, and with an empty
\* analyzed_files when the state file is missing, cannot be opened, or does not
\* parse.
C7_NewNeverFails ==
    [][new => /\ result'.ok
              /\ mgr'.live
              /\ state_file.kind \in {"missing", "unopenable", "corrupt"}
                     => mgr'.analyzed_files = EmptyMap]_vars

\* the ignored names, as the specification lists them
IgnoredName(c) == c \in {"target", "node_modules", ".git", "__pycache__", ".deeptracking-state.json"}
HasIgnoredComponent(path) == \E i \in 1..Len(path) : IgnoredName(path[i])

C9_GraphRoundTrip ==
    \A S \in GraphPaths : \A order \in Orders(IndexedEdges(S)) :
        Range(get_dependencies(S, order))
            = {to_string_lossy(d.target) : d \in {x \in added : x.source = S}}

\* C9 witness: a source with two different recorded targets, one of them not
\* valid UTF-8, both returned
C9_Witness ==
    \E S \in GraphPaths : \E order \in Orders(IndexedEdges(S)) :
        /\ Cardinality({d.target : d \in {x \in added : x.source = S}}) = 2
        /\ NodeRaw \in {d.target : d \in {x \in added : x.source = S}}
        /\ Cardinality(Range(get_dependencies(S, order))) = 2

\* C10: get_callers(B) holds the source of every added FunctionCall fact into
\* B, and nothing but sources of added FunctionCall facts into B.
C10_Callers ==
    \A B \in GraphPaths :
        /\ \A d \in added :
               (d.dependency_type = "FunctionCall" /\ d.target = B)
                   => d.source \in Range(get_callers(B))
        /\ \A A \in Range(get_callers(B)) :
               \E d \in added :
                   d.source = A /\ d.target = B /\ d.dependency_type = "FunctionCall"

\* C10 witness: B is called by A and imported by another node, and only A is
\* among its callers
C10_Witness ==
    \E A \in GraphPaths, B \in GraphPaths, C \in GraphPaths :
        /\ A # C
        /\ \E d \in added : d.source = A /\ d.target = B /\ d.dependency_type = "FunctionCall"
        /\ \E d \in added : d.source = C /\ d.target = B /\ d.dependency_type = "Import"
        /\ Range(get_callers(B)) = {A}
(***************************************************************************)
(* Properties of the graph's metrics and relationships                     *)
(***************************************************************************)
\* the nodes met by following find_parent from `file`, at most n steps
RECURSIVE Chain(_, _, _)
Chain(file, ord, n) ==
    IF n = 0 \/ ~find_parent(file, ord).some THEN <<file>>
    ELSE <<file>> \o Chain(find_parent(file, ord).value, ord, n - 1)

\* the chain of Inheritance edges followed from `file` comes back to a node it has met
ChainRevisits(file, ord) ==
    LET c == Chain(file, ord, Cardinality(GraphPaths)) IN
    \E i \in 1..Len(c), j \in 1..Len(c) : i < j /\ c[i] = c[j]

\* C11: calculate_inheritance_depth finishes on every graph (within as many
\* iterations as there are nodes, plus one), and when the chain of Inheritance
\* edges followed from the node comes back to a node it returns the error
\* "Cyclic inheritance detected"; otherwise it returns the length of the chain.
C11_CycleReported ==
    \A ord \in IterOrders : \A file \in GraphPaths :
        LET r == calculate_inheritance_depth(file, ord) IN
        /\ r.err # "unfinished"
        /\ ChainRevisits(file, ord) => ~r.ok /\ r.err = "Cyclic inheritance detected"
        /\ ~ChainRevisits(file, ord) =>
               r.ok /\ r.value = Len(Chain(file, ord, Cardinality(GraphPaths))) - 1

\* a.rs inherits foo and foo inherits a.rs; the depth of a.rs is the cycle error
C11_Witness ==
    \E ord \in IterOrders :
        /\ find_parent(NodeA, ord) = [some |-> TRUE, value |-> NodeFoo]
        /\ find_parent(NodeFoo, ord) = [some |-> TRUE, value |-> NodeA]
        /\ calculate_inheritance_depth(NodeA, ord).err = "Cyclic inheritance detected"

\* C12: for a node whose inheritance chain has a cycle, calculate_metrics and
\* get_llamaindex_metadata still return their result (dependencies, callers,
\* direct relationships, counts and coupling factor); the cycle is an error of
\* the depth alone.
C12_CycleFailsDepthOnly ==
    \A ord \in IterOrders : \A file \in GraphPaths :
        ChainRevisits(file, ord) =>
            /\ calculate_metrics(file, ord).ok
            /\ get_llamaindex_metadata(file, ord).ok

\* the number of edges of the graph that satisfy a test
EdgeCount(test(_)) == Len(SelectSeq(edges, test))

\* C13: when calculate_metrics(node) returns metrics, coupling_factor is
\* (incoming + outgoing) / total_node_count with incoming the number of edges
\* into the node, outgoing the number of edges out of it and total_node_count
\* the number of nodes; with no nodes it is 0.
C13_CouplingFactor ==
    \A ord \in IterOrders : \A file \in GraphPaths :
        LET m == calculate_metrics(file, ord)
            incoming == EdgeCount(LAMBDA e : e.target = file)
            outgoing == EdgeCount(LAMBDA e : e.source = file)
            total == Cardinality(DOMAIN nodes)
            cf == m.value.coupling_factor
        IN m.ok =>
            /\ cf.den # 0
            /\ total = 0 => cf.num = 0
            /\ total > 0 => cf.num * total = (incoming + outgoing) * cf.den

\* the relation names of the edge kinds
RelationName ==
    [k \in DependencyType |->
        CASE k = "FunctionCall" -> "calls" [] k = "Import" -> "imports"
          [] k = "Inheritance" -> "inherits" [] k = "Usage" -> "uses"
          [] k = "FunctionDefinition" -> "defines" [] k = "TypeUsage" -> "uses_type"]

EdgeOf(f) == [source |-> f.source, target |-> f.target,
              edge_type |-> f.dependency_type, line_number |-> f.line_number]

\* C14: a step of the graph keeps every edge where it is; every fact that was
\* added is an edge of the graph; and get_direct_relationships(source) lists a
\* target under a relation name exactly when a fact of that kind from that
\* source to that target was added, so two kinds between one pair are both
\* reported, each under its own name.
C14_AppendOnly ==
    /\ [][\A i \in 1..Len(edges) : i <= Len(edges') /\ edges'[i] = edges[i]]_vars
    /\ [](\A f \in added : \E i \in 1..Len(edges) : edges[i] = EdgeOf(f))
    /\ [](\A ord \in IterOrders : \A file \in GraphPaths :
            LET rels == get_direct_relationships(file, ord) IN
            /\ \A f \in added : f.source = file =>
                   /\ RelationName[f.dependency_type] \in DOMAIN rels
                   /\ to_string_lossy(f.target) \in Range(rels[RelationName[f.dependency_type]])
            /\ \A r \in DOMAIN rels : \A t \in Range(rels[r]) :
                   \E f \in added : /\ f.source = file
                                    /\ RelationName[f.dependency_type] = r
                                    /\ to_string_lossy(f.target) = t)

\* a.rs both imports and calls foo, in two successive batches
C14_Witness ==
    /\ Len(edges) = 2
    /\ edges[1].source = NodeA /\ edges[1].target = NodeFoo /\ edges[1].edge_type = "Import"
    /\ edges[2].source = NodeA /\ edges[2].target = NodeFoo /\ edges[2].edge_type = "FunctionCall"
    /\ \E ord \in IterOrders :
          DOMAIN get_direct_relationships(NodeA, ord) = {"imports", "calls"}

(***************************************************************************)
(* The three-file project through the bridge                               *)
(***************************************************************************)
ScenarioA == <<"proj", "a.rs">>
ScenarioB == <<"proj", "b.rs">>
ScenarioC == <<"proj", "c.rs">>

\* the last call fed the graph with a run that analysed the three files
RunFed ==
    /\ result.op = "initialize" /\ result.ok
    /\ {d.source : d \in Range(result.dependencies)} = {ScenarioA, ScenarioB, ScenarioC}

\* get_dependencies(a.rs) includes b and get_callers(foo) includes c.rs
ScenarioDirect ==
    RunFed => \A ord \in IterOrders :
        /\ to_string_lossy(<<"b">>) \in Range(get_dependencies(ScenarioA, EdgesIn(ord, ScenarioA)))
        /\ ScenarioC \in Range(get_callers(<<"foo">>))

\* C15: with a.rs importing b, b.rs defining foo and c.rs calling foo, after an
\* analysis run fed into the graph get_dependencies(a.rs) includes b,
\* get_callers(foo) includes c.rs, and the indirect relationships of a.rs
\* include c.rs at a depth of at most 2.
C15_Scenario ==
    RunFed => \A ord \in IterOrders :
        /\ to_string_lossy(<<"b">>) \in Range(get_dependencies(ScenarioA, EdgesIn(ord, ScenarioA)))
        /\ ScenarioC \in Range(get_callers(<<"foo">>))
        /\ \E r \in Range(get_indirect_relationships(ScenarioA, ord)) :
               r.path = to_string_lossy(ScenarioC) /\ r.depth <= 2

C17_ExpiredIsAbsent ==
    [][(/\ cres'.op = "get"
        /\ cres'.key \in DOMAIN cache
        /\ now - cache[cres'.key].last_accessed > config.ttl)
       => ~cres'.found]_vars

\* C18: the cache never holds more than max_size entries.
C18_CapacityBounded == CacheLen(cache) <= config.max_size

\* the same for the caches whose max_size is not 0
CapacityBoundedPositive == config.max_size > 0 => CacheLen(cache) <= config.max_size

\* C19: embed_chunks returns an embedding for every chunk whose text is in the
\* cache or can be embedded by the model, whatever happens to the other chunks.
C19_FailureIsPerChunk ==
    emb_result.called =>
        \A i \in 1..Len(emb_result.chunks) :
            LET text == emb_result.chunks[i].content IN
            (text \in emb_result.cached \/ text \notin emb_result.failing)
                => \E j \in 1..Len(emb_result.results) :
                       /\ emb_result.results[j][1] = emb_result.chunks[i]
                       /\ emb_result.results[j][2] = model_embed(text)

\* C20: the i-th vector added is at position i, the metadata map has the keys
\* 0..n-1, and the metadata under key i has the path and modality passed with
\* the i-th vector and the id i; no two stored metadata carry the same id.
C20_DenseIds ==
    LET n == Len(vectors) IN
    /\ n = Len(passed)
    /\ \A i \in 1..n : vectors[i] = passed[i].vector
    /\ DOMAIN metadata = 0..(n - 1)
    /\ \A i \in 0..(n - 1) :
          /\ metadata[i].path = passed[i + 1].metadata.path
          /\ metadata[i].modality = passed[i + 1].metadata.modality
          /\ metadata[i].id = i
    /\ \A i \in 0..(n - 1) : \A j \in 0..(n - 1) : i # j => metadata[i].id # metadata[j].id

\* the part of C20 about positions and keys
IndexAligned ==
    LET n == Len(vectors) IN
    /\ n = Len(passed)
    /\ \A i \in 1..n : vectors[i] = passed[i].vector
    /\ DOMAIN metadata = 0..(n - 1)
    /\ \A i \in 0..(n - 1) :
          /\ metadata[i].path = passed[i + 1].metadata.path
          /\ metadata[i].modality = passed[i + 1].metadata.modality

(***************************************************************************)
(* Properties of the traversals of the graph                               *)
(***************************************************************************)
\* the targets of the edges indexed under a path
Successors(p) == {e.target : e \in IndexedEdges(p)}

\* the nodes reached from `file` along at most n outgoing edges
RECURSIVE Within(_, _)
Within(file, n) ==
    IF n = 0 THEN {file}
    ELSE LET near == Within(file, n - 1) IN near \cup UNION {Successors(p) : p \in near}

\* the relationships get_indirect_relationships reports for a node, over every
\* iteration order
Reported(file) == UNION {Range(get_indirect_relationships(file, ord)) : ord \in IterOrders}

\* C23: every target get_indirect_relationships(node) reports is reached from
\* the node along at most 3 outgoing edges.
C23_WithinMaxDepth ==
    \A file \in ChainPaths : \A r \in Reported(file) :
        \E p \in Within(file, 3) : r.path = to_string_lossy(p)

\* what holds instead: the targets reported are within 4 edges of the node
WithinFourHops ==
    \A file \in ChainPaths : \A r \in Reported(file) :
        \E p \in Within(file, 4) : r.path = to_string_lossy(p)

\* C24: the intermediate path of every relationship reported starts at the
\* node, ends at the target reported, goes from each of its nodes to the next
\* along an edge indexed under the former, and has no node twice; the loops
\* that build it finish.
C24_PathIsReal ==
    \A file \in ChainPaths : \A r \in Reported(file) :
        LET path == r.intermediate_nodes IN
        /\ Unfinished \notin Range(path)
        /\ path # <<>>
        /\ path[1] = file
        /\ to_string_lossy(path[Len(path)]) = r.path
        /\ \A i \in 1..(Len(path) - 1) : path[i + 1] \in Successors(path[i])
        /\ \A i \in 1..Len(path) : \A j \in 1..Len(path) : i # j => path[i] # path[j]

\* a graph with a cycle n0 -> n2 -> n0 in which n0 reaches a node two edges away
C24_Witness ==
    /\ ChainNode(0) \in Successors(ChainNode(2))
    /\ ChainNode(2) \in Successors(ChainNode(0))
    /\ \E r \in Reported(ChainNode(0)) : Len(r.intermediate_nodes) = 3

\* C27: the depth reported with a relationship is the number of edges of its
\* intermediate path, so a direct neighbour has depth 1.
C27_DepthIsHops ==
    \A file \in ChainPaths : \A r \in Reported(file) :
        r.depth = Len(r.intermediate_nodes) - 1

\* what holds instead: the depth reported is one less than the number of edges
DepthIsHopsLessOne ==
    \A file \in ChainPaths : \A r \in Reported(file) :
        r.depth = Len(r.intermediate_nodes) - 2

\* C28: an insert of a key the cache already holds replaces the entry of that
\* key and nothing else: the keys are the same before and after, and every
\* other entry is as it was.
C28_ReinsertKeepsOthers ==
    [][(cres'.op = "insert" /\ cres'.key \in DOMAIN cache)
       => /\ DOMAIN cache' = DOMAIN cache
          /\ \A k \in DOMAIN cache \ {cres'.key} : cache'[k] = cache[k]]_vars

\* what holds instead: it does so while the cache holds fewer than max_size entries
ReinsertBelowCapacity ==
    [][(cres'.op = "insert" /\ cres'.key \in DOMAIN cache /\ CacheLen(cache) < config.max_size)
       => /\ DOMAIN cache' = DOMAIN cache
          /\ \A k \in DOMAIN cache \ {cres'.key} : cache'[k] = cache[k]]_vars

\* the vector a returned pair is about
Scored(pair) == vectors[pair[1] + 1]

\* C21: a search completes and every pair it returns in which the query or
\* the vector has norm zero carries the similarity 0.
C21_ZeroNormIsZero ==
    store_result.op = "search" =>
        /\ store_result.ok
        /\ \A i \in 1..Len(store_result.value) :
              LET pair == store_result.value[i] IN
              (norm(store_result.query) = 0 \/ norm(Scored(pair)) = 0)
                  => ~is_nan(pair[2]) /\ pair[2].num = 0

\* C22: a search over n vectors returns min(k, n) pairs with distinct ids of
\* the corpus, the similarities never increasing along the result, and no
\* vector left out has a greater similarity than one returned.
C22_TopK ==
    store_result.op = "search" =>
        LET res == store_result.value
            n == Len(vectors)
            ids == {res[i][1] : i \in 1..Len(res)}
        IN /\ store_result.ok
           /\ Len(res) = Min(store_result.k, n)
           /\ Cardinality(ids) = Len(res) /\ ids \subseteq 0..(n - 1)
           /\ \A i \in 1..(Len(res) - 1) : Geq(res[i][2], res[i + 1][2])
           /\ \A j \in (0..(n - 1)) \ ids : \A i \in 1..Len(res) :
                 Geq(res[i][2], cosine_similarity_guarded(store_result.query, vectors[j + 1]))

\* no zero vector is involved in the last search
NoZeroNorm ==
    /\ norm(store_result.query) # 0
    /\ \A i \in 1..Len(vectors) : norm(vectors[i]) # 0

\* what holds instead: the same for the searches in which neither the query nor
\* a vector of the corpus has norm zero
TopKWithoutZeroNorm == NoZeroNorm => C22_TopK

(***************************************************************************)
(* Properties of the project structure, the text chunks and the indexes    *)
(***************************************************************************)
\* the entries of a tree of FileEntry, children included
RECURSIVE Flatten(_)
Flatten(tree) ==
    IF tree = <<>> THEN <<>>
    ELSE <<Head(tree)>> \o Flatten(Head(tree).children) \o Flatten(Tail(tree))

\* how often a relative path occurs in the project structure returned
Occurrences(rel) == Len(SelectSeq(Flatten(result.project_structure), LAMBDA e : e.path = rel))

\* a successful run of analyze_project of src/analyzers/manager.rs has returned
StructureReturned ==
    variant = "analyzers::manager" /\ result.op = "analyze_project" /\ result.ok

\* C29: every file the walk of analyze_project met that has an analyzer is in
\* the project structure returned, exactly once.
C29_TreeHoldsEveryFile ==
    StructureReturned =>
        \A p \in result.current_files :
            get_analyzer_for_file(p) # "None" => Occurrences(Rel(p)) = 1

\* what holds instead: the structure holds files directly below the root that the
\* walk met and that have an analyzer, each at most once, and nothing else
TreeHoldsTopLevelOnly ==
    StructureReturned =>
        LET tree == Flatten(result.project_structure) IN
        \A i \in 1..Len(tree) :
            /\ Len(tree[i].path) = 1
            /\ Join(root, tree[i].path) \in result.current_files
            /\ get_analyzer_for_file(Join(root, tree[i].path)) # "None"
            /\ Occurrences(tree[i].path) = 1


\* the tokens 0..len-1 of the text that the chunks returned hold
Covered == {t \in 0..(chunker.len - 1) :
               \E i \in 1..Len(chunker.result.chunks) :
                   chunker.result.chunks[i][1] <= t /\ t < chunker.result.chunks[i][2]}

\* start is larger after every iteration of the loop than before it
StartAdvances ==
    \A i \in 1..(Len(chunker.result.starts) - 1) :
        chunker.result.starts[i] < chunker.result.starts[i + 1]

\* C30: create_overlapping_chunks returns for every text and every pair of
\* chunk_size and chunk_overlap, chunk_overlap >= chunk_size included; start grows
\* in every iteration of its loop and every token of the text is in a chunk.
C30_ChunkingTerminates ==
    chunker.called =>
        /\ chunker.result.outcome = "returned"
        /\ StartAdvances
        /\ Covered = 0..(chunker.len - 1)

\* what holds instead: the same for the configurations with chunk_overlap < chunk_size
ChunkingWithSmallerOverlap ==
    chunker.called /\ chunker.config.chunk_overlap < chunker.config.chunk_size =>
        /\ chunker.result.outcome = "returned"
        /\ StartAdvances
        /\ Covered = 0..(chunker.len - 1)


\* the value of the last insert of the text, NoKey if there is none
RECURSIVE LastWritten(_, _)
LastWritten(text, log) ==
    IF log = <<>> THEN NoKey
    ELSE IF log[Len(log)][1] = text THEN log[Len(log)][2]
    ELSE LastWritten(text, SubSeq(log, 1, Len(log) - 1))

\* C25: a task suspended in embed_text on the call of the model holds no lock of
\* the cache, so a task that has its embedding can always insert it (lookups take
\* no lock that lasts); the cache holds one entry for every text inserted and
\* none for the others, with the value of the last insert of the text.
C25_NoLockAcrossAwait ==
    /\ \A p \in Procs : tasks[p].state = "awaiting" => tasks[p].guard = NoKey
    /\ \A p \in Procs : tasks[p].state = "embedded" => Holders(p) = {}
    /\ DOMAIN emb_cache = {written[i][1] : i \in 1..Len(written)}
    /\ \A text \in DOMAIN emb_cache : emb_cache[text] = LastWritten(text, written)

\* both tasks missed the cache on the same text, got different embeddings and have
\* returned
C25_Witness ==
    /\ \A p \in Procs : tasks[p].state = "returned" /\ tasks[p].text = "t1"
    /\ Len(written) = 2
    /\ written[1][2] # written[2][2]


\* the indexed dimensions in which the vector at position idx lies within the
\* tolerance band of the query
InBand(idx, query) ==
    {d \in 1..Min(Min(Len(query), Len(eindex.vectors[idx + 1])), eindex.config.num_dimensions_to_index) :
        Abs(eindex.vectors[idx + 1][d] - query[d]) <= Tolerance}

\* the exhaustive search: every vector of the index with its cosine similarity to the
\* query, those below the threshold left out
Exhaustive(query) ==
    {r \in {<<i - 1, cosine_similarity_guarded(eindex.vectors[i], query)>> : i \in 1..Len(eindex.vectors)} :
        Geq(r[2], eindex.config.similarity_threshold)}

\* a search of the EmbeddingIndex has returned
SearchReturned == eresult.op = "search" /\ eresult.ok

\* C26: what EmbeddingIndex::search returns are at most top_k items in the order of
\* non-increasing similarity, each within the tolerance band of the query in more
\* than a third of the indexed dimensions and with a cosine similarity of at least
\* similarity_threshold, and each with that similarity among the results of the
\* exhaustive search with the same threshold.
C26_PruningRefinesExhaustive ==
    SearchReturned =>
        /\ Len(eresult.value) <= eresult.top_k
        /\ \A i \in 1..Len(eresult.value) :
               /\ 3 * Cardinality(InBand(eresult.value[i][1], eresult.query))
                      > eindex.config.num_dimensions_to_index
               /\ Geq(eresult.value[i][2], eindex.config.similarity_threshold)
               /\ eresult.value[i] \in Exhaustive(eresult.query)
        /\ \A i \in 1..(Len(eresult.value) - 1) : Geq(eresult.value[i][2], eresult.value[i + 1][2])

\* a search that returned two items of different similarity, and one that returned
\* fewer items than top_k allows and than the exhaustive search finds
C26_Witness ==
    /\ SearchReturned
    /\ \/ /\ Len(eresult.value) = 2
          /\ ~Geq(eresult.value[2][2], eresult.value[1][2])
       \/ /\ Len(eresult.value) = 1
          /\ eresult.top_k = 2
          /\ Cardinality(Exhaustive(eresult.query)) = 2

====
